---- MODULE Spec2Model ----
(***************************************************************************)
(* Model of the CSV ingestion engine (src/process_csv.py) and of the      *)
(* polling orchestrator that calls it (src/sftp.py).                       *)
(*                                                                         *)
(* One FileUploadRecord (collection checklistfileuploads) and the          *)
(* documents written for its (checklistRef, inspectionRef) (collection     *)
(* checklistinspections) are the shared store.  Every element of Procs is  *)
(* one caller of process_csv_file: either a poll of fetch_files_from_sftp  *)
(* or a bare call of process_csv_file.  Callers interleave at the store    *)
(* round-trips.                                                            *)
(*                                                                         *)
(* A data row of the file is represented by its position (1-based) and by  *)
(* whether it is entirely empty after trimming; a written document carries *)
(* the position of the row it was computed from in place of the answer.    *)
(*                                                                         *)
(* Of the file's text the model keeps the sample, the first 1024           *)
(* characters that the dialect detection of stream_local_csv reads, and    *)
(* what csv.Sniffer does with it.                                          *)
(***************************************************************************)
EXTENDS Integers, Sequences, FiniteSets, TLC

\* ------------------------------------------------------------------ bounds
MaxQ == 2             \* field definitions of the checklist: 0..MaxQ
MaxCpu == 4           \* multiprocessing.cpu_count() ranges over 1..MaxCpu
NumProcs == 2         \* Spec: concurrent callers
MaxRows == 2          \* Spec: data rows of the file, 0..MaxRows
MaxCalls == 2         \* Spec: calls of process_csv_file in one behaviour
SeqMaxRows == 3       \* SpecSeq, SpecGrow: data rows of the file
SeqMaxCalls == 3      \* SpecSeq, SpecGrow: calls, made one after the other
RowsPerWorker == 1    \* the code's 10 rows per worker, scaled to the file size
batch_size == 2       \* the code's 500 rows per sub-batch, scaled
MAX_BULK_OPS == 2     \* the code's 10000 operations per bulk write, scaled
WorkerCap == 8
MaxRules == 2
MaxFields == 2
ChunkMaxRows == 95    \* SpecChunks: data rows of the file, 0..ChunkMaxRows
ChunkMaxCpu == 20     \* SpecChunks: multiprocessing.cpu_count() ranges over 1..ChunkMaxCpu
ChunkMaxSkip == 3     \* SpecChunks: skip_rows at entry
ChunkMaxBase == 3     \* SpecChunks: start_order at entry
MinRowsPerWorker == 10
StreamMaxRows == 1    \* SpecStream: data rows of the file
StreamMaxCalls == 2   \* SpecStream: calls, made one after the other
HeaderThreshold == 10
TitleMaxRows == 2     \* SpecTitles: data rows of the file
TitleMaxCalls == 2    \* SpecTitles: calls, made one after the other
UpsertMaxRuns == 2    \* SpecUpsert: runs of process_csv_file
UpsertMaxRows == 1    \* SpecUpsert: data rows a run may write
UpsertMaxOrder == 1   \* SpecUpsert: row_order ranges over 0..UpsertMaxOrder
UpsertMaxClock == 1   \* SpecUpsert: readings of the clock, 0..UpsertMaxClock
PollMaxInspections == 2  \* SpecPoll: inspections the orchestrator creates
PollMaxMtime == 1      \* SpecPoll: times the remote file is written again
PollMaxRows == 1       \* SpecPoll: rows one run of process_csv_file writes: 0..PollMaxRows

Procs == 1..NumProcs

Min(a, b) == IF a < b THEN a ELSE b
Max(a, b) == IF a > b THEN a ELSE b

VARIABLES
  limit,         \* what the behaviour explores: [procs, rows, calls, grow, ...], fixed by Init
  file,          \* the local CSV: [header |-> BOOLEAN, rows |-> Seq(BOOLEAN)], TRUE = non-empty row
  Q,             \* len(question_meta): number of field definitions
  hasInspectionRef, \* the record carries an inspectionRef (records made by the orchestrator do)
  status,        \* FileUploadRecord.status
  lastRecord,    \* FileUploadRecord.lastRecord, the resume counter
  errorMessage,  \* FileUploadRecord.errorMessage
  docs,          \* checklistinspections documents of the record's (checklistRef, inspectionRef)
  pc,            \* position of each caller
  caller,        \* "orch" (fetch_files_from_sftp) or "direct" (bare process_csv_file)
  process_model, \* per caller: lastRecord as returned by the claim
  start_order,   \* per caller: start_order of process_csv_file
  skip_rows,     \* per caller: skip_rows
  current_skip,  \* per caller: current_skip of the adjustment loop
  workers,       \* per caller: the chunk workers of the run
  calls,         \* number of calls of process_csv_file so far
  claims,        \* history: number of successful claims so far
  failures,      \* history: number of runs ended by the handler of process_csv_file
  preOrders,     \* history: per caller, the orders committed when its claim succeeded
  outcome,       \* history: per caller, how its last process_csv_file ended
  hookResult,    \* history: result of the last inspection_completed call
  question_meta, \* process_single_row: the field definitions
  row_cells,     \* process_single_row: row, the cells of the row
  field_index,   \* process_single_row: the field the loop is at (from 1)
  row_ops,       \* process_single_row: ops, the answers appended so far
  delimiter,     \* per caller: dialect.delimiter of stream_local_csv
  headers,       \* per caller: headers, the header row as parsed
  chunk_dir,     \* per caller: the csv_chunks_ directory on disk and its chunk files
  stream_error,  \* history: per caller, the error raised in stream_local_csv and the one leaving it
  question_list, \* the checklist's field definitions as find_one returns them: [type, title]
  common_id_map, \* process_csv_file: common_id_map of the run
  object_ids,    \* number of ObjectId() values generated so far
  utcnow,        \* the clock datetime.utcnow() reads
  files,         \* the remote directory as list_files returns it: the file polled
  START_DATE_STR,   \* config.settings.START_DATE_STR: a text, empty when not set
  file_uploads_col, \* checklistfileuploads, in insertion order
  checklistresults_col, \* checklistresults, in insertion order
  inspections_col,  \* inspections: number of documents inserted
  poll           \* per caller: locals of fetch_files_from_sftp and of what it calls

vars == <<limit, file, Q, hasInspectionRef, status, lastRecord, errorMessage, docs, pc, caller,
          process_model, start_order, skip_rows, current_skip, workers, calls, claims,
          failures, preOrders, outcome, hookResult, question_meta, row_cells, field_index, row_ops,
          delimiter, headers, chunk_dir, stream_error, question_list, common_id_map, object_ids,
          utcnow, files, START_DATE_STR, file_uploads_col, checklistresults_col, inspections_col,
          poll>>

store == <<status, lastRecord, errorMessage, docs>>
input == <<limit, file, Q, hasInspectionRef, question_list>>
scoring == <<question_meta, row_cells, field_index, row_ops>>
streaming == <<delimiter, headers, chunk_dir, stream_error>>
upserting == <<common_id_map, object_ids, utcnow>>
polling == <<files, START_DATE_STR, file_uploads_col, checklistresults_col, inspections_col, poll>>
services == <<upserting, polling>>
\* ------------------------------------------------------------------ texts
\* A text is a sequence of one-character strings.
Space == " "

\* str.strip(): leading and trailing whitespace removed.
RECURSIVE LStrip(_)
LStrip(s) == IF s # <<>> /\ Head(s) = Space THEN LStrip(Tail(s)) ELSE s

RECURSIVE RStrip(_)
RStrip(s) == IF s # <<>> /\ s[Len(s)] = Space THEN RStrip(SubSeq(s, 1, Len(s) - 1)) ELSE s

strip(s) == RStrip(LStrip(s))

\* str.split(sep): the pieces between the separators, empty pieces included.
RECURSIVE split(_, _, _)
split(s, sep, piece) ==
  IF s = <<>> THEN <<piece>>
  ELSE IF Head(s) = sep
       THEN <<piece>> \o split(Tail(s), sep, <<>>)
       ELSE split(Tail(s), sep, Append(piece, Head(s)))

\* ------------------------------------------------------ dialect detection
NewLine == "\n"
Comma == ","
Pipe == "|"

\* The characters csv.Sniffer().sniff(sample, delimiters=',;\t| ') may return.
SniffDelimiters == {",", ";", "\t", "|", " "}

\* str.count(c).
count(s, c) == Cardinality({k \in 1..Len(s) : s[k] = c})

\* What csv.Sniffer().sniff can do with a sample: it returns a dialect whose
\* delimiter is one of the candidates and occurs in the sample, or it raises
\* csv.Error.  Which of them it is depends on the sniffer's heuristics.
Sniffer(sample) == {c \in SniffDelimiters : count(sample, c) > 0} \cup {"Error"}

\* Variant of FallbackDelimiter that picks the pipe as soon as one occurs.
FallbackDelimiterAnyPipe(sample) ==
  IF count(sample, Pipe) > 0 THEN Pipe ELSE Comma

\* except csv.Error: the delimiter by counting commas and pipes in the sample.
FallbackDelimiter(sample) ==
  IF count(sample, Pipe) > count(sample, Comma) THEN Pipe ELSE Comma

\* dialect.delimiter before the header is read.
SniffedDelimiter(f) ==
  IF f.sniff = "Error" THEN FallbackDelimiter(f.sample) ELSE f.sniff

\* The first line of the sample, without its line end.
RECURSIVE FirstLine(_)
FirstLine(s) ==
  IF s = <<>> \/ Head(s) = NewLine THEN <<>> ELSE <<Head(s)>> \o FirstLine(Tail(s))

\* next(csv_reader) on the header line: a blank line gives no column; with
\* skipinitialspace the blanks in front of a field are dropped.
next_row(line, delim) ==
  IF line = <<>> THEN <<>>
  ELSE LET fields == split(line, delim, <<>>)
       IN  [k \in 1..Len(fields) |-> IF delim = Space THEN fields[k] ELSE LStrip(fields[k])]

\* if len(headers) < 10 and sample_pipe > sample_comma: the delimiter becomes '|'.
Overridden(f) ==
  /\ Len(next_row(FirstLine(f.sample), SniffedDelimiter(f))) < HeaderThreshold
  /\ count(f.sample, Pipe) > count(f.sample, Comma)

\* dialect.delimiter after the override: the one the rows are counted with,
\* the chunks are written with and the workers are given.
DialectDelimiter(f) == IF Overridden(f) THEN Pipe ELSE SniffedDelimiter(f)

\* headers after the override.
Headers(f) == next_row(FirstLine(f.sample), DialectDelimiter(f))

\* ---------------------------------------------------------------- samples
\* The first 1024 characters of a file (f.read(1024)).
\* A header only, comma separated
DefaultSample == <<"a", ",", "b", NewLine>>

\* A header and a row, comma separated
CommaSample == <<"a", ",", "b", NewLine, "1", ",", "2", NewLine>>

\* Pipe separated
PipeSample == <<"a", "|", "b", NewLine, "1", "|", "2", NewLine>>

\* Semicolon separated
SemicolonSample == <<"a", ";", "b", ";", "c", NewLine, "1", ";", "2", ";", "3", NewLine>>

\* Tab separated
TabSample == <<"a", "\t", "b", NewLine, "1", "\t", "2", NewLine>>

\* 5 commas and 1 pipe, header a,b,c
ScenarioA == <<"a", ",", "b", ",", "c", NewLine, "x", "|", "y", ",", "z", ",", ",", NewLine>>

\* 1 comma and 3 pipes
MorePipesSample == <<"a", ",", "b", "|", "c", NewLine, "4", "|", "5", "|", "6", NewLine>>

\* Semicolons, and more pipes than commas
SemicolonPipesSample == <<"a", ";", "b", "|", "c", NewLine, "1", ";", "2", "|", "3", NewLine>>

\* No candidate delimiter at all
OneColumnSample == <<"a", "b", "c", NewLine, "1", NewLine>>

\* The header line is blank
BlankHeaderSample == <<NewLine, "1", ",", "2", NewLine>>

Samples ==
  {DefaultSample, CommaSample, PipeSample, SemicolonSample, TabSample, ScenarioA, MorePipesSample,
   SemicolonPipesSample, OneColumnSample, BlankHeaderSample}

\* The data lines the sample shows, the header line not counted.
DataLines(sample) == count(sample, NewLine) - 1

\* The samples a behaviour explores, each with what the sniffer does with it.
Detections(l) ==
  IF l.detect
  THEN UNION {{[sample |-> s, sniff |-> d] : d \in Sniffer(s)} : s \in Samples}
  ELSE {[sample |-> DefaultSample, sniff |-> Comma]}

\* ------------------------------------------------------ field definitions
Name == <<"N", "a", "m", "e">>
NameLower == <<"n", "a", "m", "e">>
NameTagged == <<"<", "b", ">", "N", "a", "m", "e", "<", "/", "b", ">">>
Age == <<"A", "g", "e">>

\* Field definitions with titles that differ.
DistinctFields ==
  <<[type |-> "Text answer", title |-> Name], [type |-> "Number", title |-> Age]>>

\* Field definitions: two types, and titles that are equal, equal after
\* normalize_header only, or different.
FieldDefs == {[type |-> t, title |-> x] : t \in {"Text answer", "Number"},
                                          x \in {Name, NameLower, Age}}

\* The lists of field definitions a behaviour explores.
QuestionLists(l) ==
  IF l.titles
  THEN UNION {[1..n -> FieldDefs] : n \in 0..MaxQ}
  ELSE {SubSeq(DistinctFields, 1, n) : n \in 0..MaxQ}

\* ------------------------------------------------- checklistinspections
\* process_single_row: one UpdateOne per field definition, all with the row's order.
process_single_row(row, row_order) ==
  [i \in 1..Q |-> [order |-> row_order, q |-> i, row |-> row]]

\* The upsert filter of process_single_row: (inspectionRef, checklistRef, answer.title, order).
UpsertKey(d) == <<d.order, question_list[d.q].title>>

SeqToSet(s) == {s[i] : i \in 1..Len(s)}

\* bulk_write of upserts: a document with the key of an operation is replaced by it.
bulk_write(coll, ops) ==
  {d \in coll : \A o \in ops : UpsertKey(o) # UpsertKey(d)} \cup ops

\* What the operations of one unordered bulk write leave: of the operations
\* with one key the one applied last, which the server is free to choose.
Applied(ops) ==
  {last \in SUBSET ops :
     \A o \in ops : Cardinality({w \in last : UpsertKey(w) = UpsertKey(o)}) = 1}

Orders(coll) == {d.order : d \in coll}

SetMax(S) == CHOOSE m \in S : \A x \in S : x <= m

\* Variant of StartOrder that reuses the highest committed order.
StartOrderNoIncrement(coll) == IF coll = {} THEN 0 ELSE SetMax(Orders(coll))

\* find_one(sort order desc) and start_order = max order + 1, else 0.
StartOrder(coll) == IF coll = {} THEN 0 ELSE SetMax(Orders(coll)) + 1

\* count_documents({inspectionRef, checklistRef, order}).
count_documents(coll, o) == Cardinality({d \in coll : d.order = o})

\* --------------------------------------------------------- chunk splitter
total_data_rows == Len(file.rows)

remaining_rows(skip) == Max(0, total_data_rows - skip)

\* Variant of num_workers that is not reduced for a short file.
num_workers_without_reduction(remaining, cpu) == Min(cpu \div 2, WorkerCap)

\* num_workers of stream_local_csv for a machine with cpu processors.
num_workers(remaining, cpu) ==
  LET n == Min(cpu \div 2, WorkerCap)
  IN  IF remaining < n * limit.rows_per_worker
      THEN Max(1, remaining \div limit.rows_per_worker)
      ELSE n

chunk_size(remaining, n) == remaining \div n

\* Variant of ch_rows that gives the last chunk chunk_size rows as well.
ch_rows_without_remainder(remaining, n, i) == chunk_size(remaining, n)

\* ch_rows of chunk i (1-based): chunk_size, the last chunk takes the rest.
ch_rows(remaining, n, i) ==
  IF i < n THEN chunk_size(remaining, n)
  ELSE remaining - (i - 1) * chunk_size(remaining, n)

\* current_offset before chunk i.
current_offset(remaining, n, i) == (i - 1) * chunk_size(remaining, n)

\* Variant of Chunks that gives every chunk the order_start of the first.
ChunksSameOrderStart(skip, base, n) ==
  LET rem == remaining_rows(skip)
  IN  [i \in 1..n |->
        [rows |-> [j \in 1..ch_rows(rem, n, i) |-> skip + current_offset(rem, n, i) + j],
         rows_to_process |-> ch_rows(rem, n, i),
         order_start |-> base]]

\* Variant of Chunks that starts chunk i at the base plus its index.
ChunksOrderStartByIndex(skip, base, n) ==
  LET rem == remaining_rows(skip)
  IN  [i \in 1..n |->
        [rows |-> [j \in 1..ch_rows(rem, n, i) |-> skip + current_offset(rem, n, i) + j],
         rows_to_process |-> ch_rows(rem, n, i),
         order_start |-> base + i - 1]]

\* The chunk files: the reader skips the header and skip rows, then hands each
\* chunk its ch_rows rows; order_start = start_order + current_offset.
Chunks(skip, base, n) ==
  LET rem == remaining_rows(skip)
  IN  [i \in 1..n |->
        [rows |-> [j \in 1..ch_rows(rem, n, i) |-> skip + current_offset(rem, n, i) + j],
         rows_to_process |-> ch_rows(rem, n, i),
         order_start |-> base + current_offset(rem, n, i)]]

\* ------------------------------------------------------------- row worker
IsNonEmpty(r) == file.rows[r]

\* The rows a worker keeps: it reads at most rows_to_process rows and drops
\* the rows that are empty after trimming.
KeptRows(chunk) ==
  SelectSeq(SubSeq(chunk.rows, 1, Min(chunk.rows_to_process, Len(chunk.rows))), IsNonEmpty)

\* Variant of row_order that restarts at order_start in every sub-batch.
row_order_without_processed(chunk, k) == chunk.order_start + (k % batch_size)

\* order of the k-th kept row (k from 0): order_start + processed + j, where
\* processed counts the kept rows of the earlier sub-batches and j is the
\* position in the sub-batch.
row_order(chunk, k) ==
  chunk.order_start + (k \div batch_size) * batch_size + (k % batch_size)

\* Variant of Flushes that leaves out the bulk write at the end of the chunk.
RECURSIVE FlushesWithoutFinalFlush(_, _, _, _)
FlushesWithoutFinalFlush(chunk, kept, k, bulk_ops) ==
  IF k > Len(kept)
  THEN <<>>
  ELSE LET ops == bulk_ops \o process_single_row(kept[k], row_order(chunk, k - 1))
       IN  IF Len(ops) >= MAX_BULK_OPS
           THEN <<ops>> \o FlushesWithoutFinalFlush(chunk, kept, k + 1, <<>>)
           ELSE FlushesWithoutFinalFlush(chunk, kept, k + 1, ops)

\* The bulk writes of process_chunk_copy in order: the operations of each kept
\* row are appended to bulk_ops, which is flushed when it holds MAX_BULK_OPS
\* operations or more, and once more at the end if it is not empty.
RECURSIVE Flushes(_, _, _, _)
Flushes(chunk, kept, k, bulk_ops) ==
  IF k > Len(kept)
  THEN IF bulk_ops # <<>> THEN <<bulk_ops>> ELSE <<>>
  ELSE LET ops == bulk_ops \o process_single_row(kept[k], row_order(chunk, k - 1))
       IN  IF Len(ops) >= MAX_BULK_OPS
           THEN <<ops>> \o Flushes(chunk, kept, k + 1, <<>>)
           ELSE Flushes(chunk, kept, k + 1, ops)

\* A worker at its start: the bulk writes ahead of it and its return value.
process_chunk_copy(chunk) ==
  LET kept == KeptRows(chunk)
      fl == Flushes(chunk, kept, 1, <<>>)
  IN  [args |-> chunk,
       flushes |-> fl,
       processed |-> Len(kept),
       st |-> IF fl = <<>> THEN "ok" ELSE "run"]

\* ----------------------------------------------------- the chunk directory
\* No csv_chunks_ directory of the caller is on disk.
NoDir == [exists |-> FALSE, files |-> {}]

\* No error was raised in stream_local_csv.
NoError == [raised |-> "none", propagated |-> "none"]

\* ------------------------------------------------------------------- Init
\* The locals of a caller that is not in fetch_files_from_sftp.
NoPoll ==
  [pc |-> "idle", file_name |-> <<>>, file_mtime |-> 0, doc_id |-> 0, inspection_ref |-> 0,
   file_doc |-> 0, source |-> "None", direct |-> FALSE, result |-> "none"]

\* No run has built its common_id_map and the clock has not been read.
NoUpserting ==
  /\ common_id_map = <<>>
  /\ object_ids = 0
  /\ utcnow = 0

\* The polling orchestrator of services/processing is not running.
NoPolling ==
  /\ files = [filename |-> <<>>, st_mtime |-> 0]
  /\ START_DATE_STR = <<>>
  /\ file_uploads_col = <<>>
  /\ checklistresults_col = <<>>
  /\ inspections_col = 0
  /\ poll = [p \in Procs |-> NoPoll]

Files(maxRows, detections) ==
  {[header |-> FALSE, rows |-> <<>>, sample |-> <<>>, sniff |-> "Error"]} \cup
  UNION {{[header |-> TRUE, rows |-> r, sample |-> d.sample, sniff |-> d.sniff] :
            r \in UNION {[1..n -> BOOLEAN] : n \in Min(DataLines(d.sample), maxRows)..maxRows}} :
         d \in detections}

\* The record as fetch_files_from_sftp creates it (status Pending, lastRecord 0),
\* nothing committed, every caller idle.
InitWith(l) ==
  /\ limit = l
  /\ file \in Files(l.rows, Detections(l))
  /\ question_list \in QuestionLists(l)
  /\ Q = Len(question_list)
  /\ hasInspectionRef \in BOOLEAN
  /\ status = "Pending"
  /\ lastRecord = 0
  /\ errorMessage = "none"
  /\ docs = {}
  /\ pc = [p \in Procs |-> "idle"]
  /\ caller = [p \in Procs |-> "direct"]
  /\ process_model = [p \in Procs |-> 0]
  /\ start_order = [p \in Procs |-> 0]
  /\ skip_rows = [p \in Procs |-> 0]
  /\ current_skip = [p \in Procs |-> 0]
  /\ workers = [p \in Procs |-> <<>>]
  /\ calls = 0
  /\ claims = 0
  /\ failures = 0
  /\ preOrders = [p \in Procs |-> {}]
  /\ outcome = [p \in Procs |-> "none"]
  /\ hookResult = "none"
  /\ question_meta = <<>>
  /\ row_cells = <<>>
  /\ field_index = 1
  /\ row_ops = <<>>
  /\ delimiter = [p \in Procs |-> "none"]
  /\ headers = [p \in Procs |-> <<>>]
  /\ chunk_dir = [p \in Procs |-> NoDir]
  /\ stream_error = [p \in Procs |-> NoError]
  /\ NoUpserting
  /\ NoPolling

\* Where a caller continues when process_csv_file returns.
Returned(p) == IF caller[p] = "orch" THEN "orch_complete" ELSE "idle"

locals == <<process_model, start_order, skip_rows, current_skip, workers>>

\* The locals of process_csv_file are gone when it returns.
ClearLocals(p) ==
  /\ process_model' = [process_model EXCEPT ![p] = 0]
  /\ start_order' = [start_order EXCEPT ![p] = 0]
  /\ skip_rows' = [skip_rows EXCEPT ![p] = 0]
  /\ current_skip' = [current_skip EXCEPT ![p] = 0]
  /\ workers' = [workers EXCEPT ![p] = <<>>]
  /\ delimiter' = [delimiter EXCEPT ![p] = "none"]
  /\ headers' = [headers EXCEPT ![p] = <<>>]

\* Variant of ExceptHandler that returns without writing the record.
ExceptHandlerWithoutStatus(p) ==
  /\ status' = status
  /\ errorMessage' = errorMessage
  /\ pc' = [pc EXCEPT ![p] = Returned(p)]
  /\ outcome' = [outcome EXCEPT ![p] = "Failed"]
  /\ failures' = failures + 1
  /\ ClearLocals(p)

\* The handler of process_csv_file: except Exception -> status Failed with a
\* message, and the function returns normally.
ExceptHandler(p) ==
  /\ status' = "Failed"
  /\ errorMessage' = "Processing error"
  /\ pc' = [pc EXCEPT ![p] = Returned(p)]
  /\ outcome' = [outcome EXCEPT ![p] = "Failed"]
  /\ failures' = failures + 1
  /\ ClearLocals(p)

\* Callers are interchangeable: the next call is made by the lowest idle one.
MayStart(p) ==
  /\ pc[p] = "idle"
  /\ p <= limit.procs
  /\ calls < limit.calls
  /\ \A q \in Procs : q < p => pc[q] # "idle"

\* ------------------------------------------------------------ orchestrator
\* fetch_files_from_sftp finds the file's last record; a record that is
\* Completed (and not modified since) is skipped, any other one is reused.
OrchPoll(p) ==
  /\ MayStart(p)
  /\ hasInspectionRef
  /\ status # "Completed"
  /\ pc' = [pc EXCEPT ![p] = "orch_reuse"]
  /\ caller' = [caller EXCEPT ![p] = "orch"]
  /\ calls' = calls + 1
  /\ outcome' = [outcome EXCEPT ![p] = "none"]
  /\ preOrders' = [preOrders EXCEPT ![p] = {}]
  /\ UNCHANGED <<services, scoring, streaming>>
  /\ UNCHANGED <<input, store, locals, claims, failures, hookResult>>

\* The remote file as the next download finds it: unchanged, or with rows
\* appended since the last download (only where the behaviour explores that).
Downloads ==
  IF limit.grow
  THEN {f \in Files(limit.rows, Detections(limit)) :
          /\ f.header
          /\ Len(f.rows) >= Len(file.rows)
          /\ SubSeq(f.rows, 1, Len(file.rows)) = file.rows
          /\ file.header => f.sample = file.sample /\ f.sniff = file.sniff}
       \cup {file}
  ELSE {file}

\* The file is downloaded again, the reused record is set to Pending, whatever
\* its status, and process_csv_file is called.
OrchReuse(p) ==
  /\ pc[p] = "orch_reuse"
  /\ file' \in Downloads
  /\ status' = "Pending"
  /\ pc' = [pc EXCEPT ![p] = "claim"]
  /\ UNCHANGED <<services, scoring, streaming>>
  /\ UNCHANGED <<limit, Q, hasInspectionRef, question_list, lastRecord, errorMessage, docs,
                 caller, locals,
                 calls, claims, failures,
                 preOrders, outcome, hookResult>>

\* After process_csv_file returned: status Completed, whatever it is.  The steps
\* after it (temp file, checklistmaps, e-mail) then succeed, or one of them raises.
OrchComplete(p) ==
  /\ pc[p] = "orch_complete"
  /\ status' = "Completed"
  /\ \E next \in {"idle", "orch_except"} : pc' = [pc EXCEPT ![p] = next]
  /\ UNCHANGED <<services, scoring, streaming>>
  /\ UNCHANGED <<input, lastRecord, errorMessage, docs, caller, locals, calls, claims, failures,
                 preOrders, outcome, hookResult>>

\* A step after it raised: the orchestrator's handler sets status Failed.
OrchExcept(p) ==
  /\ pc[p] = "orch_except"
  /\ status' = "Failed"
  /\ pc' = [pc EXCEPT ![p] = "idle"]
  /\ UNCHANGED <<services, scoring, streaming>>
  /\ UNCHANGED <<input, lastRecord, errorMessage, docs, caller, locals, calls, claims, failures,
                 preOrders, outcome, hookResult>>

\* -------------------------------------------------------- process_csv_file
\* A bare call of process_csv_file(local_csv_path).
DirectCall(p) ==
  /\ MayStart(p)
  /\ pc' = [pc EXCEPT ![p] = "claim"]
  /\ caller' = [caller EXCEPT ![p] = "direct"]
  /\ calls' = calls + 1
  /\ outcome' = [outcome EXCEPT ![p] = "none"]
  /\ preOrders' = [preOrders EXCEPT ![p] = {}]
  /\ UNCHANGED <<services, scoring, streaming>>
  /\ UNCHANGED <<input, store, locals, claims, failures, hookResult>>

\* find_one_and_update({status in [Pending, Failed]}, {status: Processing}).
Claim(p) ==
  /\ pc[p] = "claim"
  /\ status \in {"Pending", "Failed"}
  /\ status' = "Processing"
  /\ process_model' = [process_model EXCEPT ![p] = lastRecord]
  /\ pc' = [pc EXCEPT ![p] = "find_one"]
  /\ claims' = claims + 1
  /\ preOrders' = [preOrders EXCEPT ![p] = Orders(docs)]
  /\ stream_error' = [stream_error EXCEPT ![p] = NoError]
  /\ UNCHANGED <<services, scoring, delimiter, headers, chunk_dir>>
  /\ UNCHANGED <<input, lastRecord, errorMessage, docs, caller, start_order, skip_rows,
                 current_skip, workers, calls, failures, outcome, hookResult>>

\* Variant of ClaimSkip that marks the record Failed before returning.
ClaimSkipMarksFailed(p) ==
  /\ pc[p] = "claim"
  /\ status \notin {"Pending", "Failed"}
  /\ status' = "Failed"
  /\ errorMessage' = "Processing error"
  /\ pc' = [pc EXCEPT ![p] = Returned(p)]
  /\ outcome' = [outcome EXCEPT ![p] = "skipped"]
  /\ UNCHANGED <<services, scoring, streaming>>
  /\ UNCHANGED <<input, lastRecord, docs, caller, locals, calls, claims, failures, preOrders,
                 hookResult>>

\* The claim matched nothing: the call returns at once.
ClaimSkip(p) ==
  /\ pc[p] = "claim"
  /\ status \notin {"Pending", "Failed"}
  /\ pc' = [pc EXCEPT ![p] = Returned(p)]
  /\ outcome' = [outcome EXCEPT ![p] = "skipped"]
  /\ UNCHANGED <<services, scoring, streaming>>
  /\ UNCHANGED <<input, store, caller, locals, calls, claims, failures, preOrders, hookResult>>

\* find_one(checklistRef) returns an error: ValueError("Failed to fetch checklist").
FetchQuestionsError(p) ==
  /\ pc[p] = "find_one"
  /\ ExceptHandler(p)
  /\ UNCHANGED <<services, scoring, chunk_dir, stream_error>>
  /\ UNCHANGED <<input, lastRecord, docs, caller, calls, claims, preOrders, hookResult>>

\* schedule_inspection_open, called for a record without inspectionRef, returns
\* an error: ValueError("Failed to schedule inspection").
ScheduleInspectionError(p) ==
  /\ pc[p] = "find_one"
  /\ ~hasInspectionRef
  /\ ExceptHandler(p)
  /\ UNCHANGED <<services, scoring, chunk_dir, stream_error>>
  /\ UNCHANGED <<input, lastRecord, docs, caller, calls, claims, preOrders, hookResult>>

\* Both calls returned their data (they do not touch the store); start_order is
\* read from the highest committed order and skip_rows from lastRecord.
ReadStartOrder(p) ==
  /\ pc[p] = "find_one"
  /\ start_order' = [start_order EXCEPT ![p] = StartOrder(docs)]
  /\ skip_rows' = [skip_rows EXCEPT ![p] = process_model[p]]
  /\ current_skip' = [current_skip EXCEPT ![p] = process_model[p]]
  /\ pc' = [pc EXCEPT ![p] = IF Q > 0 THEN "adjust" ELSE "stream"]
  /\ UNCHANGED <<services, scoring, streaming>>
  /\ UNCHANGED <<input, store, caller, process_model, workers, calls, claims, failures, preOrders,
                 outcome, hookResult>>

\* The row the adjustment loop looks at has all its Q documents.
RowComplete(p) ==
  count_documents(docs, start_order[p] + current_skip[p] - 1) = Q

\* One turn of the loop: the row is incomplete, current_skip -= 1.
AdjustSkip(p) ==
  /\ pc[p] = "adjust"
  /\ current_skip[p] > 0
  /\ ~RowComplete(p)
  /\ current_skip' = [current_skip EXCEPT ![p] = current_skip[p] - 1]
  /\ UNCHANGED <<services, scoring, streaming>>
  /\ UNCHANGED <<input, store, pc, caller, process_model, start_order, skip_rows, workers,
                 calls, claims, failures, preOrders, outcome, hookResult>>

\* The loop ends; a lowered cursor is written to lastRecord.
AdjustDone(p) ==
  /\ pc[p] = "adjust"
  /\ current_skip[p] = 0 \/ RowComplete(p)
  /\ lastRecord' = IF current_skip[p] # skip_rows[p] THEN current_skip[p] ELSE lastRecord
  /\ skip_rows' = [skip_rows EXCEPT ![p] = current_skip[p]]
  /\ pc' = [pc EXCEPT ![p] = "stream"]
  /\ UNCHANGED <<services, scoring, streaming>>
  /\ UNCHANGED <<input, status, errorMessage, docs, caller, process_model, start_order,
                 current_skip, workers, calls, claims, failures, preOrders, outcome, hookResult>>

\* --------------------------------------------------------- stream_local_csv
\* The dialect is detected and the header read: dialect.delimiter and headers.
Detected(p) ==
  /\ delimiter' = [delimiter EXCEPT ![p] = DialectDelimiter(file)]
  /\ headers' = [headers EXCEPT ![p] = Headers(file)]

\* The chunk files on disk: file i is there until worker i removes it, when
\* it returns or in its except clause.
ChunkFiles(wks) == {i \in DOMAIN wks : wks[i].st = "run"}

\* The except clause of stream_local_csv for an error err: with temp_dir bound
\* the directory is removed and err raised again; with temp_dir not yet
\* assigned, os.path.exists(temp_dir) raises UnboundLocalError.
StreamExcept(p, err, bound) ==
  /\ chunk_dir' = [chunk_dir EXCEPT ![p] = IF bound THEN NoDir ELSE @]
  /\ stream_error' = [stream_error EXCEPT ![p] =
       [raised |-> err, propagated |-> IF bound THEN err ELSE "UnboundLocalError"]]

\* The file has no header line: next(csv_reader) raises.
StreamHeaderError(p) ==
  /\ pc[p] = "stream"
  /\ ~file.header
  /\ ExceptHandler(p)
  /\ StreamExcept(p, "StopIteration", FALSE)
  /\ UNCHANGED <<services, scoring>>
  /\ UNCHANGED <<input, lastRecord, docs, caller, calls, claims, preOrders, hookResult>>

\* Variant of StreamNoRows that goes on to write new_last to lastRecord.
StreamNoRowsWritesCounter(p) ==
  /\ pc[p] = "stream"
  /\ file.header
  /\ remaining_rows(skip_rows[p]) = 0
  /\ Detected(p)
  /\ lastRecord' = skip_rows[p] + total_data_rows
  /\ pc' = [pc EXCEPT ![p] = "hook"]
  /\ UNCHANGED <<services, scoring, chunk_dir, stream_error>>
  /\ UNCHANGED <<input, status, errorMessage, docs, caller, locals, calls, claims, failures,
                 preOrders, outcome, hookResult>>

\* remaining_rows = 0: return, nothing written.
StreamNoRows(p) ==
  /\ pc[p] = "stream"
  /\ file.header
  /\ remaining_rows(skip_rows[p]) = 0
  /\ pc' = [pc EXCEPT ![p] = "hook"]
  /\ Detected(p)
  /\ UNCHANGED <<services, scoring, chunk_dir, stream_error>>
  /\ UNCHANGED <<input, store, caller, locals, calls, claims, failures, preOrders, outcome,
                 hookResult>>

\* The chunks are written and the workers started.
StreamSplit(p) ==
  /\ pc[p] = "stream"
  /\ file.header
  /\ remaining_rows(skip_rows[p]) > 0
  /\ \E cpu \in 1..limit.cpus :
       LET n == num_workers(remaining_rows(skip_rows[p]), cpu)
           chunks == Chunks(skip_rows[p], start_order[p], n)
       IN  /\ n > 0
           /\ workers' = [workers EXCEPT ![p] = [i \in 1..n |-> process_chunk_copy(chunks[i])]]
  /\ chunk_dir' = [chunk_dir EXCEPT ![p] = [exists |-> TRUE, files |-> ChunkFiles(workers'[p])]]
  /\ pc' = [pc EXCEPT ![p] = "workers"]
  /\ Detected(p)
  /\ UNCHANGED <<services, scoring, stream_error>>
  /\ UNCHANGED <<input, store, caller, process_model, start_order, skip_rows, current_skip,
                 calls, claims, failures, preOrders, outcome, hookResult>>

\* num_workers = 0: chunk_size = remaining_rows // num_workers raises.
StreamZeroWorkers(p) ==
  /\ pc[p] = "stream"
  /\ file.header
  /\ remaining_rows(skip_rows[p]) > 0
  /\ \E cpu \in 1..limit.cpus : num_workers(remaining_rows(skip_rows[p]), cpu) = 0
  /\ ExceptHandler(p)
  /\ StreamExcept(p, "ZeroDivisionError", TRUE)
  /\ UNCHANGED <<services, scoring>>
  /\ UNCHANGED <<input, lastRecord, docs, caller, calls, claims, preOrders, hookResult>>

\* The worker's state after the bulk write at the head of its list.
AfterFlush(wk) ==
  [wk EXCEPT !.flushes = Tail(wk.flushes),
             !.st = IF Tail(wk.flushes) = <<>> THEN "ok" ELSE "run"]

\* A worker's bulk_write(bulk_ops, ordered=False) succeeds.
WorkerFlush(p, w) ==
  /\ pc[p] = "workers"
  /\ w \in DOMAIN workers[p]
  /\ workers[p][w].st = "run"
  /\ \E last \in Applied(SeqToSet(Head(workers[p][w].flushes))) : docs' = bulk_write(docs, last)
  /\ workers' = [workers EXCEPT ![p][w] = AfterFlush(workers[p][w])]
  /\ chunk_dir' = [chunk_dir EXCEPT ![p].files = ChunkFiles(workers'[p])]
  /\ UNCHANGED <<services, scoring, delimiter, headers, stream_error>>
  /\ UNCHANGED <<input, status, lastRecord, errorMessage, pc, caller, process_model,
                 start_order, skip_rows, current_skip, calls, claims, failures, preOrders, outcome,
                 hookResult>>

\* A worker's bulk write fails: some of its operations may have been applied;
\* the worker removes its chunk file and raises.
WorkerFlushError(p, w) ==
  /\ pc[p] = "workers"
  /\ w \in DOMAIN workers[p]
  /\ workers[p][w].st = "run"
  /\ \E applied \in SUBSET SeqToSet(Head(workers[p][w].flushes)) :
       /\ applied # SeqToSet(Head(workers[p][w].flushes))
       /\ \E last \in Applied(applied) : docs' = bulk_write(docs, last)
  /\ workers' = [workers EXCEPT ![p][w].st = "err"]
  /\ chunk_dir' = [chunk_dir EXCEPT ![p].files = ChunkFiles(workers'[p])]
  /\ UNCHANGED <<services, scoring, delimiter, headers, stream_error>>
  /\ UNCHANGED <<input, status, lastRecord, errorMessage, pc, caller, process_model,
                 start_order, skip_rows, current_skip, calls, claims, failures, preOrders, outcome,
                 hookResult>>

\* Parallel(...) re-raises a worker's error; the remaining workers are stopped.
StreamWorkerError(p) ==
  /\ pc[p] = "workers"
  /\ \E w \in DOMAIN workers[p] : workers[p][w].st = "err"
  /\ ExceptHandler(p)
  /\ StreamExcept(p, "BulkWriteError", TRUE)
  /\ UNCHANGED <<services, scoring>>
  /\ UNCHANGED <<input, lastRecord, docs, caller, calls, claims, preOrders, hookResult>>

\* new_last of stream_local_csv.
NewLast(p) == skip_rows[p] + total_data_rows

\* All workers returned: lastRecord is set to new_last.
StreamDone(p) ==
  /\ pc[p] = "workers"
  /\ \A w \in DOMAIN workers[p] : workers[p][w].st = "ok"
  /\ lastRecord' = NewLast(p)
  /\ pc' = [pc EXCEPT ![p] = "hook"]
  /\ chunk_dir' = [chunk_dir EXCEPT ![p] = NoDir]
  /\ UNCHANGED <<services, scoring, delimiter, headers, stream_error>>
  /\ UNCHANGED <<input, status, errorMessage, docs, caller, locals, calls, claims, failures,
                 preOrders, outcome, hookResult>>

\* ------------------------------------------------- completion of the run
\* inspection_completed(payload) returns without error ...
InspectionCompleted(p) ==
  /\ pc[p] = "hook"
  /\ hookResult' = "ok"
  /\ pc' = [pc EXCEPT ![p] = "complete"]
  /\ UNCHANGED <<services, scoring, streaming>>
  /\ UNCHANGED <<input, store, caller, locals, calls, claims, failures, preOrders, outcome>>

\* ... or with one: ValueError("Failed to complete inspection").
InspectionCompletedError(p) ==
  /\ pc[p] = "hook"
  /\ hookResult' = "error"
  /\ ExceptHandler(p)
  /\ UNCHANGED <<services, scoring, chunk_dir, stream_error>>
  /\ UNCHANGED <<input, lastRecord, docs, caller, calls, claims, preOrders>>

\* update_one({_id}, {status: Completed}) and return.
MarkCompleted(p) ==
  /\ pc[p] = "complete"
  /\ status' = "Completed"
  /\ pc' = [pc EXCEPT ![p] = Returned(p)]
  /\ outcome' = [outcome EXCEPT ![p] = "Completed"]
  /\ ClearLocals(p)
  /\ UNCHANGED <<services, scoring, chunk_dir, stream_error>>
  /\ UNCHANGED <<input, lastRecord, errorMessage, docs, caller, calls, claims, failures, preOrders,
                 hookResult>>

Next ==
  \E p \in Procs :
    \/ OrchPoll(p)
    \/ OrchReuse(p)
    \/ OrchComplete(p)
    \/ OrchExcept(p)
    \/ DirectCall(p)
    \/ Claim(p)
    \/ ClaimSkip(p)
    \/ FetchQuestionsError(p)
    \/ ScheduleInspectionError(p)
    \/ ReadStartOrder(p)
    \/ AdjustSkip(p)
    \/ AdjustDone(p)
    \/ StreamHeaderError(p)
    \/ StreamNoRows(p)
    \/ StreamSplit(p)
    \/ StreamZeroWorkers(p)
    \/ \E w \in 1..WorkerCap : WorkerFlush(p, w)
    \/ \E w \in 1..WorkerCap : WorkerFlushError(p, w)
    \/ StreamWorkerError(p)
    \/ StreamDone(p)
    \/ InspectionCompleted(p)
    \/ InspectionCompletedError(p)
    \/ MarkCompleted(p)

\* Two concurrent callers, a file that does not change.
Init == InitWith([procs |-> NumProcs, rows |-> MaxRows, calls |-> MaxCalls, grow |-> FALSE,
                 cpus |-> MaxCpu, rows_per_worker |-> RowsPerWorker, detect |-> FALSE,
                 titles |-> FALSE])
Spec == Init /\ [][Next]_vars

\* One caller at a time, longer files and more calls.
InitSeq == InitWith([procs |-> 1, rows |-> SeqMaxRows, calls |-> SeqMaxCalls, grow |-> FALSE,
                 cpus |-> MaxCpu, rows_per_worker |-> RowsPerWorker, detect |-> FALSE,
                 titles |-> FALSE])
SpecSeq == InitSeq /\ [][Next]_vars

\* One caller at a time; the remote file may have grown between two downloads.
InitGrow == InitWith([procs |-> 1, rows |-> SeqMaxRows, calls |-> SeqMaxCalls, grow |-> TRUE,
                 cpus |-> MaxCpu, rows_per_worker |-> RowsPerWorker, detect |-> FALSE,
                 titles |-> FALSE])
SpecGrow == InitGrow /\ [][Next]_vars

\* One caller at a time, short files, every sample and every outcome of the sniffer.
InitStream == InitWith([procs |-> 1, rows |-> StreamMaxRows, calls |-> StreamMaxCalls,
                        grow |-> FALSE, cpus |-> MaxCpu, rows_per_worker |-> RowsPerWorker,
                        detect |-> TRUE, titles |-> FALSE])
SpecStream == InitStream /\ [][Next]_vars

\* One caller at a time, every list of field definitions: titles may repeat.
InitTitles == InitWith([procs |-> 1, rows |-> TitleMaxRows, calls |-> TitleMaxCalls,
                        grow |-> FALSE, cpus |-> MaxCpu, rows_per_worker |-> RowsPerWorker,
                        detect |-> FALSE, titles |-> TRUE])
SpecTitles == InitTitles /\ [][Next]_vars

\* ------------------------------------------------ the chunk splitter alone
\* stream_local_csv is entered by one caller for a file of up to ChunkMaxRows
\* non-empty rows on a machine of up to ChunkMaxCpu processors, with the
\* code's 10 rows per worker.  Either the checklist has no question, nothing
\* is committed and lastRecord is where an earlier run of a shorter file left
\* it, or it has one, skip_rows is 0 and an earlier failed run has committed
\* the first rows.
ChunkLimit ==
  [procs |-> 1, rows |-> ChunkMaxRows, calls |-> 1, grow |-> FALSE, cpus |-> ChunkMaxCpu,
   rows_per_worker |-> MinRowsPerWorker, detect |-> FALSE, titles |-> FALSE]

InitChunks ==
  /\ limit = ChunkLimit
  /\ \E T \in 0..ChunkMaxRows :
       file = [header |-> TRUE, rows |-> [j \in 1..T |-> TRUE], sample |-> DefaultSample,
               sniff |-> Comma]
  /\ hasInspectionRef = TRUE
  /\ question_list \in {SubSeq(DistinctFields, 1, n) : n \in 0..1}
  /\ Q = Len(question_list)
  /\ \E skip \in 0..ChunkMaxSkip, base \in 0..ChunkMaxBase :
       /\ \/ Q = 0 /\ base = 0
          \/ Q = 1 /\ skip = 0 /\ base <= Len(file.rows)
       /\ lastRecord = skip
       /\ docs = UNION {SeqToSet(process_single_row(r, r - 1)) : r \in 1..base}
       /\ process_model = [p \in Procs |-> IF p = 1 THEN skip ELSE 0]
       /\ skip_rows = process_model
       /\ current_skip = process_model
       /\ start_order = [p \in Procs |-> IF p = 1 THEN base ELSE 0]
  /\ status = "Processing"
  /\ errorMessage = "none"
  /\ pc = [p \in Procs |-> IF p = 1 THEN "stream" ELSE "idle"]
  /\ caller = [p \in Procs |-> "direct"]
  /\ workers = [p \in Procs |-> <<>>]
  /\ calls = 1
  /\ claims = 1
  /\ failures = 0
  /\ preOrders = [p \in Procs |-> IF p = 1 THEN Orders(docs) ELSE {}]
  /\ outcome = [p \in Procs |-> "none"]
  /\ hookResult = "none"
  /\ question_meta = <<>>
  /\ row_cells = <<>>
  /\ field_index = 1
  /\ row_ops = <<>>
  /\ delimiter = [p \in Procs |-> "none"]
  /\ headers = [p \in Procs |-> <<>>]
  /\ chunk_dir = [p \in Procs |-> NoDir]
  /\ stream_error = [p \in Procs |-> NoError]
  /\ NoUpserting
  /\ NoPolling

\* The steps of stream_local_csv up to the start of the workers.
NextChunks ==
  \E p \in Procs :
    \/ StreamNoRows(p)
    \/ StreamSplit(p)
    \/ StreamZeroWorkers(p)

SpecChunks == InitChunks /\ [][NextChunks]_vars

\* ===================================================================
\* process_single_row: the answers of one row
\* ===================================================================
\* str.lower(), for the capitals the sample texts use.
LowerChar(c) ==
  CASE c = "Y" -> "y" [] c = "R" -> "r" [] c = "B" -> "b" [] c = "N" -> "n" [] c = "A" -> "a"
    [] OTHER -> c

lower(s) == [k \in 1..Len(s) |-> LowerChar(s[k])]

\* Position of the first ">" at or after k, 0 when there is none.
RECURSIVE FindClose(_, _)
FindClose(s, k) ==
  IF k > Len(s) THEN 0 ELSE IF s[k] = ">" THEN k ELSE FindClose(s, k + 1)

\* re.sub(r"<[^>]+>", "", text): a "<", one character or more that are not
\* ">", and the next ">" are removed, scanning from the left.
RECURSIVE RemoveTags(_)
RemoveTags(s) ==
  IF s = <<>> THEN <<>>
  ELSE IF Head(s) = "<" /\ FindClose(s, 2) > 2
       THEN RemoveTags(SubSeq(s, FindClose(s, 2) + 1, Len(s)))
       ELSE <<Head(s)>> \o RemoveTags(Tail(s))

\* Variant of normalize_header that keeps the case of the text.
normalize_header_keeps_case(text) == strip(RemoveTags(text))

normalize_header(text) == lower(strip(RemoveTags(text)))

Digits == <<"0", "1", "2", "3", "4", "5", "6", "7", "8", "9">>
IsDigit(c) == \E d \in 1..10 : Digits[d] = c
DigitValue(c) == (CHOOSE d \in 1..10 : Digits[d] = c) - 1

RECURSIVE Decimal(_, _)
Decimal(s, acc) == IF s = <<>> THEN acc ELSE Decimal(Tail(s), 10 * acc + DigitValue(Head(s)))

\* float(x) for decimal integers with an optional sign: ok = FALSE stands for
\* ValueError. Fractions, exponents, "inf" and "nan" are outside the sample texts.
float(x) ==
  LET t == strip(x)
      neg == t # <<>> /\ Head(t) = "-"
      body == IF neg THEN Tail(t) ELSE t
  IN  IF body # <<>> /\ \A k \in 1..Len(body) : IsDigit(body[k])
      THEN [ok |-> TRUE, v |-> IF neg THEN 0 - Decimal(body, 0) ELSE Decimal(body, 0)]
      ELSE [ok |-> FALSE, v |-> 0]

\* float(x.get("score", 0)) or 0.
ScoreOf(x) == IF "score" \in DOMAIN x THEN float(x.score) ELSE [ok |-> TRUE, v |-> 0]

\* answer_obj as built before the value is looked at: scorevalue 0, answer None.
DefaultAnswer == [scorevalue |-> 0, kind |-> "None", val |-> <<>>]

\* An exception inside the try block: answer_obj has not been touched yet.
Raised == [raised |-> TRUE, scorevalue |-> 0, kind |-> "None", val |-> <<>>]

Scored(score, kind, val) == [raised |-> FALSE, scorevalue |-> score, kind |-> kind, val |-> val]

\* next((r for r in answerOptions if normalize_header(r["name"]) ==
\* normalize_header(value)), None): the position of the option, 0 for None.
RECURSIVE FirstMatch(_, _, _)
FirstMatch(options, value, k) ==
  IF k > Len(options) THEN 0
  ELSE IF normalize_header(options[k].name) = normalize_header(value) THEN k
       ELSE FirstMatch(options, value, k + 1)

\* The score a choice token adds: the matched option's, nothing without a match.
OptionScore(options, value) ==
  LET m == FirstMatch(options, value, 1)
  IN  IF m = 0 THEN [ok |-> TRUE, v |-> 0] ELSE ScoreOf(options[m])

\* type "Single choice responder".
SingleChoice(q, value) ==
  LET sc == OptionScore(q.answerOptions, value)
  IN  IF sc.ok THEN Scored(sc.v, "str", <<value>>) ELSE Raised

RECURSIVE SumSeq(_)
SumSeq(s) == IF s = <<>> THEN 0 ELSE Head(s) + SumSeq(Tail(s))

\* Variant of MultipleChoice that stores the tokens as split, untrimmed.
MultipleChoiceUntrimmed(q, value) ==
  LET pieces == split(value, ",", <<>>)
      scores == [k \in 1..Len(pieces) |-> OptionScore(q.answerOptions, strip(pieces[k]))]
  IN  IF \A k \in 1..Len(scores) : scores[k].ok
      THEN Scored(SumSeq([k \in 1..Len(scores) |-> scores[k].v]), "list", pieces)
      ELSE Raised

\* type "Multiple choice responder".
MultipleChoice(q, value) ==
  LET pieces == split(value, ",", <<>>)
      choices == [k \in 1..Len(pieces) |-> strip(pieces[k])]
      scores == [k \in 1..Len(choices) |-> OptionScore(q.answerOptions, choices[k])]
  IN  IF \A k \in 1..Len(scores) : scores[k].ok
      THEN Scored(SumSeq([k \in 1..Len(scores) |-> scores[k].v]), "list", choices)
      ELSE Raised

\* Variant of TextScore in which an "is blank" rule adds its score for every value.
RECURSIVE TextScoreCountsBlankRule(_, _, _)
TextScoreCountsBlankRule(rules, k, value) ==
  IF k > Len(rules) THEN [ok |-> TRUE, v |-> 0]
  ELSE LET sc == rules[k]
           rest == TextScoreCountsBlankRule(rules, k + 1, value)
       IN  IF "condition" \notin DOMAIN sc THEN [ok |-> FALSE, v |-> 0]
           ELSE IF \/ (sc.condition = "is customized keyword" /\ "count" \in DOMAIN sc
                         /\ sc.count = value)
                   \/ (sc.condition = "is not blank" /\ value # <<>>)
                   \/ sc.condition = "is blank"
                THEN IF ScoreOf(sc).ok /\ rest.ok
                     THEN [ok |-> TRUE, v |-> ScoreOf(sc).v + rest.v]
                     ELSE [ok |-> FALSE, v |-> 0]
                ELSE rest

\* type "Text answer": the loop over scoreOptions from rule k on.
RECURSIVE TextScore(_, _, _)
TextScore(rules, k, value) ==
  IF k > Len(rules) THEN [ok |-> TRUE, v |-> 0]
  ELSE LET sc == rules[k]
           rest == TextScore(rules, k + 1, value)
       IN  IF "condition" \notin DOMAIN sc THEN [ok |-> FALSE, v |-> 0]
           ELSE IF \/ (sc.condition = "is customized keyword" /\ "count" \in DOMAIN sc
                         /\ sc.count = value)
                   \/ (sc.condition = "is not blank" /\ value # <<>>)
                   \/ (sc.condition = "is blank" /\ value = <<>>)
                THEN IF ScoreOf(sc).ok /\ rest.ok
                     THEN [ok |-> TRUE, v |-> ScoreOf(sc).v + rest.v]
                     ELSE [ok |-> FALSE, v |-> 0]
                ELSE rest

TextAnswer(q, value) ==
  LET sc == TextScore(q.scoreOptions, 1, value)
  IN  IF sc.ok THEN Scored(sc.v, "str", <<value>>) ELSE Raised

\* num_value: float(value), math.nan on ValueError.
NumValue(value) == [nan |-> ~float(value).ok, v |-> float(value).v]

\* cnt: float(sc["count"]), 0 on ValueError or KeyError.
Cnt(sc) == IF "count" \in DOMAIN sc /\ float(sc.count).ok THEN float(sc.count).v ELSE 0

\* The elif chain of the numeric branch; every comparison with nan is false
\* but !=, which is true.
NumericHit(cond, num, cnt) ==
  IF cond = "less than" /\ ~num.nan /\ num.v < cnt THEN TRUE
  ELSE IF cond = "less than or equal to" /\ ~num.nan /\ num.v <= cnt THEN TRUE
  ELSE IF cond = "equal to" /\ ~num.nan /\ num.v = cnt THEN TRUE
  ELSE IF cond = "not equal to" /\ (num.nan \/ num.v # cnt) THEN TRUE
  ELSE IF cond = "greater than or equal to" /\ ~num.nan /\ num.v >= cnt THEN TRUE
  ELSE IF cond = "greater than" /\ ~num.nan /\ num.v > cnt THEN TRUE
  ELSE FALSE

\* Variant of NumberScore that stops at the first rule that holds.
RECURSIVE NumberScoreFirstMatch(_, _, _)
NumberScoreFirstMatch(rules, k, num) ==
  IF k > Len(rules) THEN [ok |-> TRUE, v |-> 0]
  ELSE IF "condition" \notin DOMAIN rules[k] THEN [ok |-> FALSE, v |-> 0]
       ELSE IF NumericHit(rules[k].condition, num, Cnt(rules[k]))
            THEN ScoreOf(rules[k])
            ELSE NumberScoreFirstMatch(rules, k + 1, num)

\* types "Slider" and "Number": the loop over scoreOptions from rule k on.
RECURSIVE NumberScore(_, _, _)
NumberScore(rules, k, num) ==
  IF k > Len(rules) THEN [ok |-> TRUE, v |-> 0]
  ELSE LET sc == rules[k]
           rest == NumberScore(rules, k + 1, num)
       IN  IF "condition" \notin DOMAIN sc THEN [ok |-> FALSE, v |-> 0]
           ELSE IF NumericHit(sc.condition, num, Cnt(sc))
                THEN IF ScoreOf(sc).ok /\ rest.ok
                     THEN [ok |-> TRUE, v |-> ScoreOf(sc).v + rest.v]
                     ELSE [ok |-> FALSE, v |-> 0]
                ELSE rest

NumberAnswer(q, value) ==
  LET sc == NumberScore(q.scoreOptions, 1, NumValue(value))
  IN  IF sc.ok THEN Scored(sc.v, "str", <<value>>) ELSE Raised

\* check_date_and_time(value)["isValidDate"] for a string: the text before the
\* first space has three "/"-separated integers that make a date (months of 31
\* days here).
check_date_and_time(value) ==
  LET parts == split(strip(value), Space, <<>>)
      date_parts == split(parts[1], "/", <<>>)
  IN  /\ Len(date_parts) = 3
      /\ \A k \in 1..3 : float(date_parts[k]).ok
      /\ float(date_parts[1]).v \in 1..9999
      /\ float(date_parts[2]).v \in 1..12
      /\ float(date_parts[3]).v \in 1..31

\* type "Date & Time".
DateAnswer(q, value) ==
  IF check_date_and_time(value) THEN Scored(0, "date", <<value>>) ELSE Scored(0, "None", <<>>)

\* The try block of process_single_row for a value that is neither None nor "".
TryBlock(q, value) ==
  IF q.type = "Single choice responder" THEN SingleChoice(q, value)
  ELSE IF q.type = "Multiple choice responder" THEN MultipleChoice(q, value)
  ELSE IF q.type = "Text answer" THEN TextAnswer(q, value)
  ELSE IF q.type = "Date & Time" THEN DateAnswer(q, value)
  ELSE IF q.type \in {"Slider", "Number"} THEN NumberAnswer(q, value)
  ELSE Scored(0, "str", <<value>>)

\* value = row[i].strip() if i < len(row) else None.
ValueOf(cells, k) ==
  IF k <= Len(cells) THEN [none |-> FALSE, s |-> strip(cells[k])] ELSE [none |-> TRUE, s |-> <<>>]

\* value in (None, "").
IsBlank(value) == value.none \/ value.s = <<>>

\* The UpdateOne appended for field k: its answer_obj.
UpdateOne(k, answer) ==
  [field |-> k, scorevalue |-> answer.scorevalue, kind |-> answer.kind, val |-> answer.val]

pipeline == <<input, store, pc, caller, locals, calls, claims, failures, preOrders, outcome,
              hookResult, streaming>>

\* Variant of FieldBlank that appends no record for the field.
FieldBlankWithoutRecord ==
  /\ field_index <= Len(question_meta)
  /\ IsBlank(ValueOf(row_cells, field_index))
  /\ field_index' = field_index + 1
  /\ UNCHANGED <<services, pipeline, question_meta, row_cells, row_ops>>

\* One turn of the loop for a cell that is absent or empty: the default answer is appended.
FieldBlank ==
  /\ field_index <= Len(question_meta)
  /\ IsBlank(ValueOf(row_cells, field_index))
  /\ row_ops' = Append(row_ops, UpdateOne(field_index, DefaultAnswer))
  /\ field_index' = field_index + 1
  /\ UNCHANGED <<services, pipeline, question_meta, row_cells>>

\* One turn of the loop for a value the try block scores.
FieldScored ==
  /\ field_index <= Len(question_meta)
  /\ ~IsBlank(ValueOf(row_cells, field_index))
  /\ LET res == TryBlock(question_meta[field_index], ValueOf(row_cells, field_index).s)
     IN  /\ ~res.raised
         /\ row_ops' = Append(row_ops, UpdateOne(field_index, res))
  /\ field_index' = field_index + 1
  /\ UNCHANGED <<services, pipeline, question_meta, row_cells>>

\* Variant of FieldRaised in which the exception ends the row.
FieldRaisedAbortsRow ==
  /\ field_index <= Len(question_meta)
  /\ ~IsBlank(ValueOf(row_cells, field_index))
  /\ TryBlock(question_meta[field_index], ValueOf(row_cells, field_index).s).raised
  /\ field_index' = Len(question_meta) + 1
  /\ UNCHANGED <<services, pipeline, question_meta, row_cells, row_ops>>

\* One turn of the loop in which the try block raises: except Exception logs,
\* and the answer is appended as it was.
FieldRaised ==
  /\ field_index <= Len(question_meta)
  /\ ~IsBlank(ValueOf(row_cells, field_index))
  /\ TryBlock(question_meta[field_index], ValueOf(row_cells, field_index).s).raised
  /\ row_ops' = Append(row_ops, UpdateOne(field_index, DefaultAnswer))
  /\ field_index' = field_index + 1
  /\ UNCHANGED <<services, pipeline, question_meta, row_cells>>

NextRow == FieldBlank \/ FieldScored \/ FieldRaised

\* ------------------------------------------------------- sample inputs
Yes == <<"Y", "e", "s">>
No == <<"N", "o">>
Red == <<"R", "e", "d">>
Blue == <<"B", "l", "u", "e">>
YesPadded == <<" ", "y", "e", "s", " ">>
YesTagged == <<"<", "b", ">", "y", "e", "s", "<", "/", "b", ">">>
RedBlue == <<"r", "e", "d", ",", " ", "b", "l", "u", "e">>

\* The cells a row is made of.
Values ==
  {<<>>, <<"1", "5">>, <<"7">>, <<"a", "b">>, Yes, YesPadded, YesTagged, RedBlue,
   <<"2", "0", "2", "4", "/", "1", "/", "5">>}

YesNoOptions == <<[name |-> Yes, score |-> <<"3">>], [name |-> No, score |-> <<"1">>]>>
ColourOptions == <<[name |-> Red, score |-> <<"3">>], [name |-> Blue, score |-> <<"2">>]>>
\* An option whose score is no number.
BadOptions == <<[name |-> Yes, score |-> <<"x">>], [name |-> No, score |-> <<"1">>]>>

Conditions ==
  {"less than", "less than or equal to", "equal to", "not equal to",
   "greater than or equal to", "greater than"}

\* Well-formed numeric rules: thresholds 10 and 15.
NumberRules ==
  {[condition |-> c, count |-> <<"1", "0">>, score |-> <<"5">>] : c \in Conditions}
    \cup {[condition |-> c, count |-> <<"1", "5">>, score |-> <<"4">>] : c \in Conditions}

\* Malformed rules: no condition key, a score that is no number, a count that is none.
BadRules ==
  {[count |-> <<"1", "0">>, score |-> <<"5">>],
   [condition |-> "not equal to", count |-> <<"1", "0">>, score |-> <<"x">>],
   [condition |-> "greater than", count |-> <<"x">>, score |-> <<"5">>]}

ScenarioB ==
  <<[condition |-> "greater than", count |-> <<"1", "0">>, score |-> <<"5">>],
    [condition |-> "less than or equal to", count |-> <<"1", "0">>, score |-> <<"2">>]>>

TextRules ==
  {[condition |-> "is customized keyword", count |-> Yes, score |-> <<"4">>],
   [condition |-> "is not blank", score |-> <<"1">>],
   [condition |-> "is blank", score |-> <<"2">>],
   [score |-> <<"5">>]}

\* The lists of at most MaxRules rules over a set.
RuleLists(rules) == UNION {[1..n -> rules] : n \in 0..MaxRules}

NumberRuleLists ==
  RuleLists(NumberRules)
    \cup {ScenarioB}
    \cup {<<b>> : b \in BadRules}
    \cup {<<b, ScenarioB[k]>> : b \in BadRules, k \in 1..2}
    \cup {<<ScenarioB[k], b>> : b \in BadRules, k \in 1..2}

Question(type, options, rules) == [type |-> type, answerOptions |-> options, scoreOptions |-> rules]

Questions ==
  {Question("Number", <<>>, l) : l \in NumberRuleLists}
    \cup {Question("Slider", <<>>, ScenarioB)}
    \cup {Question("Text answer", <<>>, l) : l \in RuleLists(TextRules)}
    \cup {Question(t, o, <<>>) :
            t \in {"Single choice responder", "Multiple choice responder"},
            o \in {YesNoOptions, ColourOptions, BadOptions}}
    \cup {Question("Date & Time", <<>>, <<>>), Question("Signature", <<>>, <<>>)}

\* The field definitions that follow the first one in a longer row.
MoreQuestions ==
  {Question("Number", <<>>, ScenarioB),
   Question("Number", <<>>, <<[count |-> <<"1", "0">>, score |-> <<"5">>]>>),
   Question("Single choice responder", BadOptions, <<>>),
   Question("Multiple choice responder", ColourOptions, <<>>)}

Rows == UNION {[1..n -> Values] : n \in 0..MaxFields}

\* process_single_row is entered with a row and the field definitions; no
\* file is being processed.
InitRow ==
  /\ question_meta \in {<<q>> : q \in Questions}
                         \cup {<<q, m>> : q \in Questions, m \in MoreQuestions}
  /\ row_cells \in Rows
  /\ field_index = 1
  /\ row_ops = <<>>
  /\ limit = [procs |-> 0, rows |-> 0, calls |-> 0, grow |-> FALSE,
              cpus |-> MaxCpu, rows_per_worker |-> RowsPerWorker, detect |-> FALSE,
              titles |-> FALSE]
  /\ file = [header |-> TRUE, rows |-> <<>>, sample |-> DefaultSample, sniff |-> ","]
  /\ Q = Len(question_meta)
  /\ question_list = <<>>
  /\ hasInspectionRef = TRUE
  /\ status = "Processing"
  /\ lastRecord = 0
  /\ errorMessage = "none"
  /\ docs = {}
  /\ pc = [p \in Procs |-> "idle"]
  /\ caller = [p \in Procs |-> "direct"]
  /\ process_model = [p \in Procs |-> 0]
  /\ start_order = [p \in Procs |-> 0]
  /\ skip_rows = [p \in Procs |-> 0]
  /\ current_skip = [p \in Procs |-> 0]
  /\ workers = [p \in Procs |-> <<>>]
  /\ calls = 0
  /\ claims = 0
  /\ failures = 0
  /\ preOrders = [p \in Procs |-> {}]
  /\ outcome = [p \in Procs |-> "none"]
  /\ hookResult = "none"
  /\ delimiter = [p \in Procs |-> "none"]
  /\ headers = [p \in Procs |-> <<>>]
  /\ chunk_dir = [p \in Procs |-> NoDir]
  /\ stream_error = [p \in Procs |-> NoError]
  /\ NoUpserting
  /\ NoPolling

SpecRow == InitRow /\ [][NextRow]_vars

\* ===================================================================
\* The common ids of the fields and the upsert of a row's documents
\* ===================================================================
\* f"{q['type']}-{normalize_header(q['title'])}".
FieldKey(q) == <<q.type, "-">> \o normalize_header(q.title)

FieldKeys == {FieldKey(question_list[i]) : i \in 1..Len(question_list)}

\* The dict comprehension keeps, for a key, the value of the last field with it.
LastWith(key) ==
  SetMax({i \in 1..Len(question_list) : FieldKey(question_list[i]) = key})

\* common_id_map, n ObjectIds having been generated before: ObjectId() is
\* evaluated once per field, the i-th call giving the id n + i.
CommonIdMap(n) == [key \in FieldKeys |-> n + LastWith(key)]

\* question_meta: every field with its cleanTitle and its commonId.
QuestionMeta(map) ==
  [i \in 1..Len(question_list) |->
     [type |-> question_list[i].type,
      title |-> question_list[i].title,
      cleanTitle |-> normalize_header(question_list[i].title),
      commonId |-> map[FieldKey(question_list[i])]]]

\* The operations process_single_row returns for a row: $set carries the
\* answer (the field and the row here), commonId and updatedAt, $setOnInsert
\* carries createdAt.
UpsertOps(row, order) ==
  [i \in 1..Len(question_meta) |->
     [order |-> order, q |-> i, row |-> row, commonId |-> question_meta[i].commonId,
      updatedAt |-> utcnow, createdAt |-> utcnow]]

\* The document an upsert leaves: createdAt is set on insert only.
Upserted(coll, o) ==
  LET found == {d \in coll : UpsertKey(d) = UpsertKey(o)}
  IN  IF found = {} THEN o ELSE [o EXCEPT !.createdAt = (CHOOSE d \in found : TRUE).createdAt]

\* bulk_write of the upserts last.
update_upsert(coll, last) ==
  {d \in coll : \A o \in last : UpsertKey(o) # UpsertKey(d)} \cup {Upserted(coll, o) : o \in last}

untouched == <<limit, file, Q, hasInspectionRef, question_list, status, lastRecord, errorMessage,
               caller, locals, claims, failures, preOrders, outcome, hookResult, streaming,
               polling, row_cells, field_index>>

\* Lines 256-270 of process_csv_file: a run builds common_id_map and question_meta.
BuildQuestionMeta ==
  /\ pc[1] = "idle"
  /\ calls < limit.calls
  /\ common_id_map' = CommonIdMap(object_ids)
  /\ question_meta' = QuestionMeta(common_id_map')
  /\ object_ids' = object_ids + Len(question_list)
  /\ calls' = calls + 1
  /\ pc' = [pc EXCEPT ![1] = "meta"]
  /\ UNCHANGED <<untouched, docs, row_ops, utcnow>>

\* Time passes.
Tick ==
  /\ utcnow < UpsertMaxClock
  /\ utcnow' = utcnow + 1
  /\ UNCHANGED <<untouched, docs, row_ops, pc, calls, question_meta, common_id_map, object_ids>>

\* process_single_row(row, row_order, question_meta, ...) for a row and an order.
ProcessSingleRow ==
  /\ pc[1] = "meta"
  /\ row_ops = <<>>
  /\ \E row \in 1..UpsertMaxRows, order \in 0..UpsertMaxOrder :
       /\ UpsertOps(row, order) # <<>>
       /\ row_ops' = UpsertOps(row, order)
  /\ UNCHANGED <<untouched, docs, pc, calls, question_meta, upserting>>

\* The bulk write of the row's operations.
BulkWriteRow ==
  /\ pc[1] = "meta"
  /\ row_ops # <<>>
  /\ \E last \in Applied(SeqToSet(row_ops)) : docs' = update_upsert(docs, last)
  /\ row_ops' = <<>>
  /\ UNCHANGED <<untouched, pc, calls, question_meta, upserting>>

\* The run ends: common_id_map.clear(), question_meta.clear().
EndRun ==
  /\ pc[1] = "meta"
  /\ row_ops = <<>>
  /\ common_id_map' = <<>>
  /\ question_meta' = <<>>
  /\ pc' = [pc EXCEPT ![1] = "idle"]
  /\ UNCHANGED <<untouched, docs, row_ops, calls, object_ids, utcnow>>

NextUpsert == BuildQuestionMeta \/ Tick \/ ProcessSingleRow \/ BulkWriteRow \/ EndRun

\* Field definitions whose titles are equal, or equal after normalize_header only.
UpsertFieldDefs ==
  FieldDefs \cup {[type |-> t, title |-> NameTagged] : t \in {"Text answer", "Number"}}

\* Runs of process_csv_file over one list of field definitions, one after the
\* other, nothing stored yet.
InitUpsert ==
  /\ limit = [procs |-> 1, rows |-> 0, calls |-> UpsertMaxRuns, grow |-> FALSE, cpus |-> MaxCpu,
              rows_per_worker |-> RowsPerWorker, detect |-> FALSE, titles |-> TRUE]
  /\ question_list \in UNION {[1..n -> UpsertFieldDefs] : n \in 0..MaxQ}
  /\ Q = Len(question_list)
  /\ file = [header |-> TRUE, rows |-> <<>>, sample |-> DefaultSample, sniff |-> ","]
  /\ hasInspectionRef = TRUE
  /\ status = "Processing"
  /\ lastRecord = 0
  /\ errorMessage = "none"
  /\ docs = {}
  /\ pc = [p \in Procs |-> "idle"]
  /\ caller = [p \in Procs |-> "direct"]
  /\ process_model = [p \in Procs |-> 0]
  /\ start_order = [p \in Procs |-> 0]
  /\ skip_rows = [p \in Procs |-> 0]
  /\ current_skip = [p \in Procs |-> 0]
  /\ workers = [p \in Procs |-> <<>>]
  /\ calls = 0
  /\ claims = 0
  /\ failures = 0
  /\ preOrders = [p \in Procs |-> {}]
  /\ outcome = [p \in Procs |-> "none"]
  /\ hookResult = "none"
  /\ question_meta = <<>>
  /\ row_cells = <<>>
  /\ field_index = 1
  /\ row_ops = <<>>
  /\ delimiter = [p \in Procs |-> "none"]
  /\ headers = [p \in Procs |-> <<>>]
  /\ chunk_dir = [p \in Procs |-> NoDir]
  /\ stream_error = [p \in Procs |-> NoError]
  /\ NoUpserting
  /\ NoPolling

SpecUpsert == InitUpsert /\ [][NextUpsert]_vars

\* ===================================================================
\* The polling orchestrator: services/processing/file_processor.py
\* ===================================================================
\* ------------------------------------------------------------ date_utils.py
\* None of Python, and a datetime at the start of a day as the number yyyymmdd.
NoDate == [ok |-> FALSE, v |-> 0]

Date(y, m, d) == [ok |-> TRUE, v |-> y * 10000 + m * 100 + d]

AllDigits(s) == \A k \in 1..Len(s) : IsDigit(s[k])

\* str.replace(old, ""): every occurrence of old is taken out, from the left.
RECURSIVE RemoveAll(_, _)
RemoveAll(s, old) ==
  IF Len(s) < Len(old) THEN s
  ELSE IF SubSeq(s, 1, Len(old)) = old THEN RemoveAll(SubSeq(s, Len(old) + 1, Len(s)), old)
  ELSE <<Head(s)>> \o RemoveAll(Tail(s), old)

\* Days of the month m of the year y.
DaysIn(y, m) ==
  IF m \in {4, 6, 9, 11} THEN 30
  ELSE IF m # 2 THEN 31
  ELSE IF y % 4 = 0 /\ (y % 100 # 0 \/ y % 400 = 0) THEN 29 ELSE 28

\* The date (y, m, d) if the calendar has it, None for the ValueError otherwise.
DateOrError(y, m, d) ==
  IF y >= 1 /\ m \in 1..12 /\ d >= 1 /\ d <= DaysIn(y, m) THEN Date(y, m, d) ELSE NoDate

\* datetime.strptime(s, "%Y%m%d") of a text of eight characters.
strptime_Ymd(s) ==
  IF Len(s) = 8 /\ AllDigits(s)
  THEN DateOrError(Decimal(SubSeq(s, 1, 4), 0), Decimal(SubSeq(s, 5, 6), 0),
                   Decimal(SubSeq(s, 7, 8), 0))
  ELSE NoDate

\* datetime.strptime(s, "%d-%m-%Y") of a text written with two, two and four digits.
strptime_dmY(s) ==
  IF /\ Len(s) = 10
     /\ s[3] = "-" /\ s[6] = "-"
     /\ AllDigits(SubSeq(s, 1, 2)) /\ AllDigits(SubSeq(s, 4, 5)) /\ AllDigits(SubSeq(s, 7, 10))
  THEN DateOrError(Decimal(SubSeq(s, 7, 10), 0), Decimal(SubSeq(s, 4, 5), 0),
                   Decimal(SubSeq(s, 1, 2), 0))
  ELSE NoDate

parse_start_date(start_date_str) ==
  IF start_date_str = <<>> THEN NoDate ELSE strptime_dmY(strip(start_date_str))

extract_date_from_filename(filename) ==
  LET name_without_ext == RemoveAll(filename, <<".", "c", "s", "v">>)
  IN IF Len(name_without_ext) >= 10 THEN strptime_Ymd(SubSeq(name_without_ext, 3, 10))
     ELSE NoDate

\* ------------------------------------------------------------ the inputs
\* Remote file names: dated on and before the first of June 2025, without a
\* date, shorter than a date, and hidden.
NameOnStart == <<"A", "B", "2", "0", "2", "5", "0", "6", "0", "1", ".", "c", "s", "v">>
NameBefore == <<"A", "B", "2", "0", "2", "5", "0", "5", "3", "1", ".", "c", "s", "v">>
NameNoDate == <<"A", "B", "r", "e", "p", "o", "r", "t", "0", "1", ".", "c", "s", "v">>
NameShort == <<"A", "B", ".", "c", "s", "v">>
NameHidden == <<".", "h", "i", "d", "d", "e", "n", ".", "c", "s", "v">>
FileNames == {NameOnStart, NameBefore, NameNoDate, NameShort, NameHidden}

\* START_DATE of the environment: not set, DD-MM-YYYY, and a text of another format.
StartDateSet == <<"0", "1", "-", "0", "6", "-", "2", "0", "2", "5">>
StartDateOtherFormat == <<"2", "0", "2", "5", "-", "0", "6", "-", "0", "1">>
StartDates == {<<>>, StartDateSet, StartDateOtherFormat}

TEMP_DOWNLOAD_DIR == <<"/", "t", "m", "p", "/">>

\* os.path.join(TEMP_DOWNLOAD_DIR, file_name)
local_path(file_name) == TEMP_DOWNLOAD_DIR \o file_name

\* ------------------------------------------------------- operations.py
\* get_last_file_upload: the record of the name with the latest createdAt, 0 for None.
get_last_file_upload(file_name) ==
  LET S == {i \in DOMAIN file_uploads_col : file_uploads_col[i].fileName = file_name}
  IN IF S = {} THEN 0 ELSE SetMax(S)

\* update_file_upload_status(doc_id, status)
update_file_upload_status(coll, doc_id, s) == [coll EXCEPT ![doc_id].status = s]

\* Line 267: a checklistresult of the inspection exists.
existing_result(inspection_id) ==
  \E i \in DOMAIN checklistresults_col : checklistresults_col[i].inspectionRef = inspection_id

\* Lines 273-276: a Completed upload record of the inspection exists.
file_upload(inspection_id) ==
  \E i \in DOMAIN file_uploads_col :
    /\ file_uploads_col[i].inspectionRef = inspection_id
    /\ file_uploads_col[i].status = "Completed"

\* Lines 295-307: update_many on the System results in progress (one checklistRef).
Deactivated(coll) ==
  [i \in DOMAIN coll |->
     IF coll[i].source = "System" /\ coll[i].isInProgress
     THEN [coll[i] EXCEPT !.isInProgress = FALSE] ELSE coll[i]]

\* ------------------------------------------------ fetch_files_from_sftp
\* Lines 49-74 for the listed file of caller p.
Hidden(p) == Len(poll[p].file_name) > 0 /\ Head(poll[p].file_name) = "."

BeforeStartDate(p) ==
  LET start_date == parse_start_date(START_DATE_STR)
      file_date == extract_date_from_filename(poll[p].file_name)
  IN start_date.ok /\ file_date.ok /\ file_date.v < start_date.v

AlreadyCompleted(p) ==
  LET last_for_file == get_last_file_upload(poll[p].file_name)
  IN /\ last_for_file # 0
     /\ file_uploads_col[last_for_file].status = "Completed"
     /\ poll[p].file_mtime <= file_uploads_col[last_for_file].fileMtime

Skipped(p) == Hidden(p) \/ BeforeStartDate(p) \/ AlreadyCompleted(p)

At(p, where) == poll[p].pc = where

Goto(p, where) == poll' = [poll EXCEPT ![p].pc = where]

\* The caller leaves the orchestrator: its locals are gone, the result is kept as history.
Leave(p, result) == poll' = [poll EXCEPT ![p] = [NoPoll EXCEPT !.result = result]]

\* Lines 26-46: the job of main.py (one at a time, job_lock) lists the remote file.
PollStart(p) ==
  /\ p = 1
  /\ At(p, "idle")
  /\ files.filename # <<>>
  /\ poll' = [poll EXCEPT ![p] = [NoPoll EXCEPT !.pc = "listed", !.file_name = files.filename,
                                                !.file_mtime = files.st_mtime]]
  /\ UNCHANGED <<files, START_DATE_STR, file_uploads_col, checklistresults_col, inspections_col>>
  /\ UNCHANGED <<pipeline, scoring, upserting>>

\* The remote file is written again: a later st_mtime.
RemoteModified ==
  /\ files.filename # <<>>
  /\ files.st_mtime < PollMaxMtime
  /\ files' = [files EXCEPT !.st_mtime = @ + 1]
  /\ UNCHANGED <<START_DATE_STR, file_uploads_col, checklistresults_col, inspections_col, poll>>
  /\ UNCHANGED <<pipeline, scoring, upserting>>

\* Lines 49-51.
SkipHidden(p) ==
  /\ At(p, "listed")
  /\ Hidden(p)
  /\ Leave(p, "hidden")
  /\ UNCHANGED <<files, START_DATE_STR, file_uploads_col, checklistresults_col, inspections_col>>
  /\ UNCHANGED <<pipeline, scoring, upserting>>

\* Lines 54-63.
SkipBeforeStartDate(p) ==
  /\ At(p, "listed")
  /\ ~Hidden(p)
  /\ BeforeStartDate(p)
  /\ Leave(p, "before_start_date")
  /\ UNCHANGED <<files, START_DATE_STR, file_uploads_col, checklistresults_col, inspections_col>>
  /\ UNCHANGED <<pipeline, scoring, upserting>>

\* Lines 68-74.
SkipCompleted(p) ==
  /\ At(p, "listed")
  /\ ~Hidden(p)
  /\ ~BeforeStartDate(p)
  /\ AlreadyCompleted(p)
  /\ Leave(p, "completed")
  /\ UNCHANGED <<files, START_DATE_STR, file_uploads_col, checklistresults_col, inspections_col>>
  /\ UNCHANGED <<pipeline, scoring, upserting>>

\* Lines 80-83: checklistmaps holds no mapping of the prefix.
SkipNoMapping(p) ==
  /\ At(p, "listed")
  /\ ~Skipped(p)
  /\ Leave(p, "no_mapping")
  /\ UNCHANGED <<files, START_DATE_STR, file_uploads_col, checklistresults_col, inspections_col>>
  /\ UNCHANGED <<pipeline, scoring, upserting>>

\* Lines 85-92: the mapping exists, a new inspection is created.
CreateInspection(p) ==
  /\ At(p, "listed")
  /\ ~Skipped(p)
  /\ inspections_col < PollMaxInspections
  /\ inspections_col' = inspections_col + 1
  /\ poll' = [poll EXCEPT ![p].pc = "download", ![p].inspection_ref = inspections_col + 1]
  /\ UNCHANGED <<files, START_DATE_STR, file_uploads_col, checklistresults_col>>
  /\ UNCHANGED <<pipeline, scoring, upserting>>

\* Lines 95-120.
Download(p) ==
  /\ At(p, "download")
  /\ Goto(p, "insert")
  /\ UNCHANGED <<files, START_DATE_STR, file_uploads_col, checklistresults_col, inspections_col>>
  /\ UNCHANGED <<pipeline, scoring, upserting>>

\* Lines 121-138 and 194-216: the download raises, doc_id is None in the handler.
DownloadError(p) ==
  /\ At(p, "download")
  /\ Leave(p, "failed")
  /\ UNCHANGED <<files, START_DATE_STR, file_uploads_col, checklistresults_col, inspections_col>>
  /\ UNCHANGED <<pipeline, scoring, upserting>>

\* Lines 141-163: create_file_upload_record.
CreateRecord(p) ==
  /\ At(p, "insert")
  /\ file_uploads_col' = Append(file_uploads_col,
       [fileName |-> poll[p].file_name, filePath |-> local_path(poll[p].file_name),
        status |-> "Pending", inspectionRef |-> poll[p].inspection_ref,
        fileMtime |-> poll[p].file_mtime, lastRecord |-> 0])
  /\ poll' = [poll EXCEPT ![p].pc = "csv_find", ![p].doc_id = Len(file_uploads_col) + 1]
  /\ UNCHANGED <<files, START_DATE_STR, checklistresults_col, inspections_col>>
  /\ UNCHANGED <<pipeline, scoring, upserting>>

\* process_csv.py lines 198-199: find_one({"filePath": local_csv_path}), no sort:
\* the server returns any record of the path.
CsvFindOne(p) ==
  /\ At(p, "csv_find")
  /\ \E i \in DOMAIN file_uploads_col :
       /\ file_uploads_col[i].filePath = local_path(poll[p].file_name)
       /\ poll' = [poll EXCEPT ![p].pc = "csv_claim", ![p].file_doc = i]
  /\ UNCHANGED <<files, START_DATE_STR, file_uploads_col, checklistresults_col, inspections_col>>
  /\ UNCHANGED <<pipeline, scoring, upserting>>

\* process_csv.py lines 207-211: the claim of file_doc.
CsvClaim(p) ==
  /\ At(p, "csv_claim")
  /\ file_uploads_col[poll[p].file_doc].status \in {"Pending", "Failed"}
  /\ file_uploads_col' = update_file_upload_status(file_uploads_col, poll[p].file_doc,
                                                   "Processing")
  /\ Goto(p, "csv_run")
  /\ UNCHANGED <<files, START_DATE_STR, checklistresults_col, inspections_col>>
  /\ UNCHANGED <<pipeline, scoring, upserting>>

\* process_csv.py lines 213-216: file_doc is not Pending or Failed, the call returns.
CsvClaimSkip(p) ==
  /\ At(p, "csv_claim")
  /\ file_uploads_col[poll[p].file_doc].status \notin {"Pending", "Failed"}
  /\ Goto(p, "mark")
  /\ UNCHANGED <<files, START_DATE_STR, file_uploads_col, checklistresults_col, inspections_col>>
  /\ UNCHANGED <<pipeline, scoring, upserting>>

\* process_csv.py lines 218-392: the rows go under the inspectionRef of file_doc, whose
\* lastRecord counts them; the run ends Completed, or Failed in the handler, and returns.
CsvRun(p) ==
  /\ At(p, "csv_run")
  /\ \E rows \in 0..PollMaxRows, end \in {"Completed", "Failed"} :
       file_uploads_col' = [file_uploads_col EXCEPT ![poll[p].file_doc].status = end,
                                                    ![poll[p].file_doc].lastRecord = @ + rows]
  /\ Goto(p, "mark")
  /\ UNCHANGED <<files, START_DATE_STR, checklistresults_col, inspections_col>>
  /\ UNCHANGED <<pipeline, scoring, upserting>>

\* Line 171: update_file_upload_status(doc_id, "Completed").
PollMarkCompleted(p) ==
  /\ At(p, "mark")
  /\ file_uploads_col' = update_file_upload_status(file_uploads_col, poll[p].doc_id, "Completed")
  /\ poll' = [poll EXCEPT ![p].pc = "result_find", ![p].source = "System"]
  /\ UNCHANGED <<files, START_DATE_STR, checklistresults_col, inspections_col>>
  /\ UNCHANGED <<pipeline, scoring, upserting>>

\* A caller outside the job of main.py (source "UI") calls
\* create_checklistresult_if_not_exists for an inspection.
ResultCall(p) ==
  /\ p \in 2..limit.procs
  /\ At(p, "idle")
  /\ \E ref \in 1..inspections_col :
       poll' = [poll EXCEPT ![p] = [NoPoll EXCEPT !.pc = "result_find", !.direct = TRUE,
                                                  !.inspection_ref = ref, !.source = "UI"]]
  /\ UNCHANGED <<files, START_DATE_STR, file_uploads_col, checklistresults_col, inspections_col>>
  /\ UNCHANGED <<pipeline, scoring, upserting>>

\* The position after create_checklistresult_if_not_exists returns.
ResultReturn(p, result) ==
  IF poll[p].direct THEN Leave(p, result) ELSE Goto(p, "cleanup")

\* operations.py lines 267-270: a result exists, return.
ResultExists(p) ==
  /\ At(p, "result_find")
  /\ existing_result(poll[p].inspection_ref)
  /\ ResultReturn(p, "result_exists")
  /\ UNCHANGED <<files, START_DATE_STR, file_uploads_col, checklistresults_col, inspections_col>>
  /\ UNCHANGED <<pipeline, scoring, upserting>>

\* operations.py lines 267-269: no result exists.
ResultMissing(p) ==
  /\ At(p, "result_find")
  /\ ~existing_result(poll[p].inspection_ref)
  /\ Goto(p, "result_upload")
  /\ UNCHANGED <<files, START_DATE_STR, file_uploads_col, checklistresults_col, inspections_col>>
  /\ UNCHANGED <<pipeline, scoring, upserting>>

\* operations.py lines 273-279: no Completed upload record, return.
ResultNoUpload(p) ==
  /\ At(p, "result_upload")
  /\ ~file_upload(poll[p].inspection_ref)
  /\ ResultReturn(p, "no_upload")
  /\ UNCHANGED <<files, START_DATE_STR, file_uploads_col, checklistresults_col, inspections_col>>
  /\ UNCHANGED <<pipeline, scoring, upserting>>

\* operations.py lines 282-310: the System results in progress are deactivated.
ResultDeactivate(p) ==
  /\ At(p, "result_upload")
  /\ file_upload(poll[p].inspection_ref)
  /\ checklistresults_col' =
       IF poll[p].source = "System" THEN Deactivated(checklistresults_col)
       ELSE checklistresults_col
  /\ Goto(p, "result_insert")
  /\ UNCHANGED <<files, START_DATE_STR, file_uploads_col, inspections_col>>
  /\ UNCHANGED <<pipeline, scoring, upserting>>

\* operations.py lines 312-353: insert_one.
ResultInsert(p) ==
  /\ At(p, "result_insert")
  /\ checklistresults_col' = Append(checklistresults_col,
       [inspectionRef |-> poll[p].inspection_ref, isInProgress |-> TRUE,
        source |-> poll[p].source])
  /\ ResultReturn(p, "result_inserted")
  /\ UNCHANGED <<files, START_DATE_STR, file_uploads_col, inspections_col>>
  /\ UNCHANGED <<pipeline, scoring, upserting>>

\* Lines 178-192: the local file is removed, checklistmaps updated, the email sent.
PollDone(p) ==
  /\ At(p, "cleanup")
  /\ Leave(p, "processed")
  /\ UNCHANGED <<files, START_DATE_STR, file_uploads_col, checklistresults_col, inspections_col>>
  /\ UNCHANGED <<pipeline, scoring, upserting>>

\* Lines 194-216: a call after the record was created raises (the store or the
\* file system fails); the handler marks doc_id Failed.
PollExcept(p) ==
  /\ At(p, "cleanup")
  /\ file_uploads_col' = update_file_upload_status(file_uploads_col, poll[p].doc_id, "Failed")
  /\ Leave(p, "failed")
  /\ UNCHANGED <<files, START_DATE_STR, checklistresults_col, inspections_col>>
  /\ UNCHANGED <<pipeline, scoring, upserting>>

NextPoll ==
  \/ RemoteModified
  \/ \E p \in Procs :
       \/ PollStart(p) \/ SkipHidden(p) \/ SkipBeforeStartDate(p) \/ SkipCompleted(p)
       \/ SkipNoMapping(p) \/ CreateInspection(p) \/ Download(p) \/ DownloadError(p)
       \/ CreateRecord(p) \/ CsvFindOne(p) \/ CsvClaim(p) \/ CsvClaimSkip(p) \/ CsvRun(p)
       \/ PollMarkCompleted(p) \/ ResultCall(p) \/ ResultExists(p) \/ ResultMissing(p)
       \/ ResultNoUpload(p) \/ ResultDeactivate(p) \/ ResultInsert(p) \/ PollDone(p)
       \/ PollExcept(p)

\* One remote file and one START_DATE, empty collections, nobody in the orchestrator.
InitPoll ==
  /\ limit = [procs |-> NumProcs, rows |-> 0, calls |-> 0, grow |-> FALSE, cpus |-> MaxCpu,
              rows_per_worker |-> RowsPerWorker, detect |-> FALSE, titles |-> FALSE]
  /\ question_list = <<>>
  /\ Q = 0
  /\ file = [header |-> TRUE, rows |-> <<>>, sample |-> DefaultSample, sniff |-> ","]
  /\ hasInspectionRef = TRUE
  /\ status = "Pending"
  /\ lastRecord = 0
  /\ errorMessage = "none"
  /\ docs = {}
  /\ pc = [p \in Procs |-> "idle"]
  /\ caller = [p \in Procs |-> "orch"]
  /\ process_model = [p \in Procs |-> 0]
  /\ start_order = [p \in Procs |-> 0]
  /\ skip_rows = [p \in Procs |-> 0]
  /\ current_skip = [p \in Procs |-> 0]
  /\ workers = [p \in Procs |-> <<>>]
  /\ calls = 0
  /\ claims = 0
  /\ failures = 0
  /\ preOrders = [p \in Procs |-> {}]
  /\ outcome = [p \in Procs |-> "none"]
  /\ hookResult = "none"
  /\ question_meta = <<>>
  /\ row_cells = <<>>
  /\ field_index = 1
  /\ row_ops = <<>>
  /\ delimiter = [p \in Procs |-> "none"]
  /\ headers = [p \in Procs |-> <<>>]
  /\ chunk_dir = [p \in Procs |-> NoDir]
  /\ stream_error = [p \in Procs |-> NoError]
  /\ NoUpserting
  /\ files \in {[filename |-> n, st_mtime |-> 0] : n \in FileNames}
  /\ START_DATE_STR \in StartDates
  /\ file_uploads_col = <<>>
  /\ checklistresults_col = <<>>
  /\ inspections_col = 0
  /\ poll = [p \in Procs |-> NoPoll]

SpecPoll == InitPoll /\ [][NextPoll]_vars

\* ===================================================================
\* Properties
\* ===================================================================
NonEmptyRows == {r \in 1..total_data_rows : file.rows[r]}

\* process_csv_file has got through a run: everything but the status write is
\* done, or it has returned after writing Completed.
RunSucceeded(p) == pc[p] = "complete" \/ outcome[p] = "Completed"

\* The run of p is the only one that ever claimed the record: it started from a
\* fresh state (nothing committed, lastRecord 0).
FromFresh(p) == RunSucceeded(p) /\ claims = 1

\* C1 as stated: after a successful run from a fresh state the committed
\* orders are exactly 0..T-1, empty rows or not (read for a checklist with at
\* least one field definition; with none nothing is ever written).
C1_OrdersExactlyZeroToT ==
  \A p \in Procs :
    (FromFresh(p) /\ Q > 0) => Orders(docs) = 0..(total_data_rows - 1)

\* C1 amended: after a successful run from a fresh state, with at least one
\* field definition, every non-empty row is committed under one order of its
\* own inside 0..T-1 and nothing else is committed; the orders are exactly
\* 0..T-1 when the file has no entirely empty row.
C1_OrdersOnePerNonEmptyRow ==
  \A p \in Procs :
    (FromFresh(p) /\ Q > 0) =>
      /\ Orders(docs) \subseteq 0..(total_data_rows - 1)
      /\ {d.row : d \in docs} = NonEmptyRows
      /\ Cardinality(Orders(docs)) = Cardinality(NonEmptyRows)
      /\ \A d1, d2 \in docs : (d1.order = d2.order) <=> (d1.row = d2.row)
      /\ (NonEmptyRows = 1..total_data_rows => Orders(docs) = 0..(total_data_rows - 1))

\* C1 witness: a two-worker run from a fresh state over a file with an empty
\* row has committed rows and is through.
C1_Witness ==
  \E p \in Procs :
    /\ pc[p] = "complete"
    /\ claims = 1
    /\ Q > 0
    /\ Len(workers[p]) = 2
    /\ NonEmptyRows # 1..total_data_rows
    /\ Cardinality(Orders(docs)) >= 2

\* The documents committed for row r, and whether they are all there.
DocsOfRow(r) == {d \in docs : d.row = r}
RowCommitted(r) == Cardinality({d.q : d \in DocsOfRow(r)}) = Q

\* The orders one uninterrupted run from a fresh state commits with n workers.
FreshRunOrders(n) ==
  LET chunks == Chunks(0, 0, n)
  IN  UNION {{row_order(chunks[i], k - 1) : k \in 1..Len(KeptRows(chunks[i]))} : i \in 1..n}

PossibleWorkers == {num_workers(total_data_rows, cpu) : cpu \in 1..MaxCpu} \ {0}

\* Every committed order has its Q documents: no bulk write was applied in part.
WholeRowsOnly == \A o \in Orders(docs) : count_documents(docs, o) = Q

\* C2 as stated: when a run that ended Failed (some of its bulk writes
\* committed, each of them whole) is retried and the retry completes, the
\* store holds what one uninterrupted run leaves: as many committed orders as
\* the file has non-empty rows, the order set of an uninterrupted run, every
\* non-empty row committed and no row under two orders.
C2_RetryEqualsUninterrupted ==
  \A p \in Procs :
    (RunSucceeded(p) /\ claims = 2 /\ failures = 1 /\ Q > 0 /\ WholeRowsOnly) =>
      /\ Cardinality(Orders(docs)) = Cardinality(NonEmptyRows)
      /\ \E n \in PossibleWorkers : Orders(docs) = FreshRunOrders(n)
      /\ \A r \in NonEmptyRows : RowCommitted(r)
      /\ \A d1, d2 \in docs : d1.row = d2.row => d1.order = d2.order

\* The operations of the bulk writes the workers of p still have ahead.
PlannedOps(p) ==
  UNION {UNION {SeqToSet(workers[p][w].flushes[i]) : i \in 1..Len(workers[p][w].flushes)} :
         w \in DOMAIN workers[p]}

\* Rows 1..k are committed under orders 0..k-1 and nothing else is below k.
PrefixCommitted(k) ==
  {d \in docs : d.order < k} = {[order |-> r - 1, q |-> i, row |-> r] : r \in 1..k, i \in 1..Q}

\* C3 as stated: a run that starts with resume counter k, 0 < k < T, rows
\* 0..k-1 committed under orders 0..k-1, works on rows k..T-1 only and gives
\* row i the order i (rows are numbered from 1 here: row r gets order r - 1).
C3_ResumeProcessesOnlyTheRest ==
  \A p \in Procs :
    LET k == process_model[p]
    IN  (/\ pc[p] = "workers"
         /\ Q > 0
         /\ 0 < k /\ k < total_data_rows
         /\ preOrders[p] = 0..(k - 1)
         /\ PrefixCommitted(k))
        => \A op \in PlannedOps(p) : op.row > k /\ op.order = op.row - 1

\* A call is between its successful claim and its terminal status write.
InRun(p) == pc[p] \in {"find_one", "adjust", "stream", "workers", "hook", "complete"}

\* C4 as stated: at no moment are two calls both between their successful
\* claim and their terminal status write.
C4_AtMostOneActiveRun ==
  Cardinality({p \in Procs : InRun(p)}) <= 1

AllowedTransitions ==
  {<<"Pending", "Processing">>, <<"Failed", "Processing">>, <<"Processing", "Completed">>,
   <<"Processing", "Failed">>, <<"Failed", "Pending">>}

\* C5 as stated: every change of the record's status is one of the five
\* transitions of the lifecycle.
C5_OnlyLifecycleTransitions ==
  [][status' # status => <<status, status'>> \in AllowedTransitions]_vars

\* C6 as stated: status Completed only if every non-empty row is committed and
\* the completion hook returned without error.
C6_CompletedMeansAllDone ==
  status = "Completed" =>
    /\ hookResult = "ok"
    /\ \A r \in NonEmptyRows : RowCommitted(r)

\* C7: whatever raises after a successful claim, process_csv_file returns with
\* status Failed and errorMessage set: every step that takes a call out of its
\* run, other than the final write of Completed, leaves the record Failed with
\* a message.
C7_ErrorLeavesFailed ==
  [][\A p \in Procs :
       (InRun(p) /\ pc'[p] = Returned(p) /\ outcome'[p] # "Completed") =>
         (status' = "Failed" /\ errorMessage' # "none")]_vars

\* C7 witness: a run has ended in the handler; the record is Failed with a message.
C7_Witness ==
  \E p \in Procs :
    outcome[p] = "Failed" /\ status = "Failed" /\ errorMessage = "Processing error"

\* A data row is committed when every record it gives rise to is stored: an
\* empty row gives rise to none.
CommittedRows == {r \in 1..total_data_rows : ~file.rows[r] \/ RowCommitted(r)}

\* C8 as stated: lastRecord never exceeds the number of committed data rows
\* (hence never exceeds T).
C8_CounterIsLowerBound ==
  lastRecord <= Cardinality(CommittedRows)

\* The rows of the bulk write at the head of worker w's list.
RowsOfNextFlush(p, w) == {o.row : o \in SeqToSet(Head(workers[p][w].flushes))}

\* C9 as stated: a worker's bulk write is followed, before anything else
\* happens, by an increment of lastRecord by the rows just committed.
C9_WorkerAdvancesCounter ==
  [][\A p \in Procs : \A w \in DOMAIN workers[p] :
       (/\ pc[p] = "workers"
        /\ workers[p][w].st = "run"
        /\ workers'[p] = [workers[p] EXCEPT ![w] = AfterFlush(workers[p][w])])
       => lastRecord' = lastRecord + Cardinality(RowsOfNextFlush(p, w))]_vars

\* C10: no order a run assigns is an order that was committed before the run
\* started (when its claim succeeded).
C10_AssignedOrdersAreNew ==
  \A p \in Procs : \A op \in PlannedOps(p) : op.order \notin preOrders[p]

\* C10 witness: a run that found committed orders has bulk writes ahead.
C10_Witness ==
  \E p \in Procs : pc[p] = "workers" /\ preOrders[p] # {} /\ PlannedOps(p) # {}

\* C11: a call whose claim matches nothing (status Completed, or Processing
\* held by another run) returns at once: the step that ends it changes no
\* field of the record, writes no document and does not call the hook.
C11_SkippedCallIsNoOp ==
  [][\A p \in Procs :
       (pc[p] = "claim" /\ status \notin {"Pending", "Failed"} /\ pc'[p] # pc[p]) =>
         /\ pc'[p] = Returned(p)
         /\ UNCHANGED <<status, lastRecord, errorMessage, docs, hookResult>>]_vars

\* C11 witness: a call on a Completed record has returned without a claim.
C11_Witness ==
  \E p \in Procs : outcome[p] = "skipped" /\ status = "Completed" /\ pc[p] = "idle"

\* C12 as stated: the hook is called only once the status is Completed, never
\* in a run that ends Failed, and a run reaches the call once, from streaming.
C12_HookOnceAfterCompleted ==
  [][\A p \in Procs :
       /\ (pc[p] = "hook" /\ pc'[p] # "hook") =>
            (status = "Completed" /\ outcome'[p] # "Failed")
       /\ (pc[p] # "hook" /\ pc'[p] = "hook") => pc[p] \in {"stream", "workers"}]_vars

\* C13: the operations a run has ahead never give two rows the same order.
C13_DistinctRowsDistinctOrders ==
  \A p \in Procs :
    \A a, b \in PlannedOps(p) : a.row # b.row => a.order # b.order

\* C13 witness: two workers of one run have rows ahead, in a file with an empty row.
C13_Witness ==
  \E p \in Procs :
    /\ pc[p] = "workers"
    /\ Len(workers[p]) = 2
    /\ \A w \in 1..2 : workers[p][w].flushes # <<>>
    /\ NonEmptyRows # 1..total_data_rows
    /\ Q > 0

\* The (row, order) pairs a run with n workers assigns from skip and base.
RunOrders(skip, base, n) ==
  LET chunks == Chunks(skip, base, n)
  IN  UNION {{<<KeptRows(chunks[i])[k], row_order(chunks[i], k - 1)>> :
                k \in 1..Len(KeptRows(chunks[i]))} : i \in 1..n}

\* The worker counts stream_local_csv can pick for the rows left after skip.
WorkerCounts(skip) == {num_workers(remaining_rows(skip), cpu) : cpu \in 1..MaxCpu} \ {0}

\* C14 as stated: when a run is about to split its file, the order of every
\* row is the same whichever worker count the machine yields.
C14_OrderIndependentOfWorkers ==
  \A p \in Procs :
    (pc[p] = "stream" /\ Q > 0 /\ file.header /\ remaining_rows(skip_rows[p]) > 0) =>
      \A n1, n2 \in WorkerCounts(skip_rows[p]) :
        RunOrders(skip_rows[p], start_order[p], n1) = RunOrders(skip_rows[p], start_order[p], n2)

\* ------------------------------------------------ scoring of one row
\* The fields process_single_row has gone through.
DoneFields == 1..Len(row_ops)

\* The trimmed cell of field k; Null when the row is too short.
Cell(k) == ValueOf(row_cells, k)

\* A rule with one of the six comparisons, a numeric threshold and a numeric score.
WellFormedRule(sc) ==
  /\ {"condition", "count", "score"} \subseteq DOMAIN sc
  /\ sc.condition \in Conditions
  /\ float(sc.count).ok
  /\ float(sc.score).ok

\* The comparison a condition names.
Holds(cond, v, c) ==
  CASE cond = "less than" -> v < c
    [] cond = "less than or equal to" -> v <= c
    [] cond = "equal to" -> v = c
    [] cond = "not equal to" -> v # c
    [] cond = "greater than or equal to" -> v >= c
    [] cond = "greater than" -> v > c

\* The sum of the scores of the rules that hold for v.
MatchingSum(rules, v) ==
  SumSeq([k \in 1..Len(rules) |->
            IF Holds(rules[k].condition, v, float(rules[k].count).v)
            THEN float(rules[k].score).v ELSE 0])

NumericField(k) == question_meta[k].type \in {"Slider", "Number"}

\* C15: for a numeric field with a numeric value and well-formed rules, the
\* score is the sum of the scores of exactly the rules that hold, and the
\* stored answer is the value; rules {>10: 5, <=10: 2} and "15" give 5.
C15_NumericScoreSumsMatchingRules ==
  \A k \in DoneFields :
    LET q == question_meta[k]
        op == row_ops[k]
    IN  (/\ NumericField(k)
         /\ ~IsBlank(Cell(k))
         /\ float(Cell(k).s).ok
         /\ \A j \in 1..Len(q.scoreOptions) : WellFormedRule(q.scoreOptions[j]))
        => /\ op.scorevalue = MatchingSum(q.scoreOptions, float(Cell(k).s).v)
           /\ op.kind = "str" /\ op.val = <<Cell(k).s>>
           /\ (q.scoreOptions = ScenarioB /\ Cell(k).s = <<"1", "5">> => op.scorevalue = 5)

\* C15 witness: two rules hold for 15 and both have been added: 5 + 4.
C15_Witness ==
  \E k \in DoneFields :
    /\ NumericField(k)
    /\ Cell(k).s = <<"1", "5">>
    /\ Len(question_meta[k].scoreOptions) = 2
    /\ \A j \in 1..2 : WellFormedRule(question_meta[k].scoreOptions[j])
    /\ row_ops[k].scorevalue = 9

\* C16 as stated: a numeric field whose value is no number scores 0 whatever
\* the rules are.
C16_NonNumericScoresZero ==
  \A k \in DoneFields :
    (NumericField(k) /\ ~IsBlank(Cell(k)) /\ ~float(Cell(k).s).ok) => row_ops[k].scorevalue = 0

OptionsWellFormed(q) == \A j \in 1..Len(q.answerOptions) : float(q.answerOptions[j].score).ok

\* The options whose normalized name is the normalized text.
MatchingOptions(q, text) ==
  {j \in 1..Len(q.answerOptions) :
     normalize_header(q.answerOptions[j].name) = normalize_header(text)}

\* The score of the matched option, 0 without a match.
MatchedScore(q, text) ==
  IF MatchingOptions(q, text) = {} THEN 0
  ELSE float(q.answerOptions[CHOOSE j \in MatchingOptions(q, text) :
                               \A i \in MatchingOptions(q, text) : j <= i].score).v

\* C17: a single-choice field scores the option whose normalized name is the
\* normalized value, 0 without a match, and stores the (trimmed) value; "Yes",
\* " yes " and "<b>yes</b>" all resolve to the option Yes.
C17_SingleChoiceMatchesNormalized ==
  \A k \in DoneFields :
    LET q == question_meta[k]
        op == row_ops[k]
    IN  (q.type = "Single choice responder" /\ ~IsBlank(Cell(k)) /\ OptionsWellFormed(q))
        => /\ op.scorevalue = MatchedScore(q, Cell(k).s)
           /\ op.kind = "str" /\ op.val = <<Cell(k).s>>
           /\ (row_cells[k] \in {Yes, YesPadded, YesTagged} /\ q.answerOptions = YesNoOptions
                 => op.scorevalue = 3)
           /\ (normalize_header(row_cells[k]) = <<"y", "e", "s">>
                 <=> row_cells[k] \in {Yes, YesPadded, YesTagged})

\* C17 witness: the tagged value has been scored against the options Yes and No.
C17_Witness ==
  \E k \in DoneFields :
    /\ question_meta[k].type = "Single choice responder"
    /\ question_meta[k].answerOptions = YesNoOptions
    /\ k <= Len(row_cells)
    /\ row_cells[k] = YesTagged
    /\ row_ops[k].scorevalue = 3

\* C18: a multi-choice field stores the trimmed comma-separated tokens in
\* input order and scores the sum of the matched options; options {Red: 3,
\* Blue: 2} and "red, blue" give ["red", "blue"] and 5.
C18_MultiChoiceSumsTokens ==
  \A k \in DoneFields :
    LET q == question_meta[k]
        op == row_ops[k]
    IN  (q.type = "Multiple choice responder" /\ ~IsBlank(Cell(k)) /\ OptionsWellFormed(q))
        => /\ op.kind = "list"
           /\ \A j \in 1..Len(op.val) : op.val[j] = strip(op.val[j])
           /\ op.scorevalue = SumSeq([j \in 1..Len(op.val) |-> MatchedScore(q, op.val[j])])
           /\ (Cell(k).s = RedBlue
                 => op.val = <<(<<"r", "e", "d">>), (<<"b", "l", "u", "e">>)>>)
           /\ (Cell(k).s = RedBlue /\ q.answerOptions = ColourOptions => op.scorevalue = 5)

\* C18 witness: "red, blue" has been scored against {Red: 3, Blue: 2}.
C18_Witness ==
  \E k \in DoneFields :
    /\ question_meta[k].type = "Multiple choice responder"
    /\ question_meta[k].answerOptions = ColourOptions
    /\ Cell(k).s = RedBlue
    /\ row_ops[k].scorevalue = 5
    /\ Len(row_ops[k].val) = 2

\* C19: whatever the type, an absent or empty cell gives score 0 and no stored
\* value; every turn of the loop appends its record and the loop can go on
\* while fields are left, short row or not.
C19_BlankCellGivesDefault ==
  /\ \A k \in DoneFields :
       IsBlank(Cell(k)) => row_ops[k] = UpdateOne(k, DefaultAnswer)
  /\ Len(row_ops) = field_index - 1
  /\ (field_index <= Len(question_meta) /\ IsBlank(Cell(field_index))) => ENABLED FieldBlank

\* C19 witness: a row shorter than the field list has been gone through.
C19_Witness ==
  /\ Len(question_meta) = 2
  /\ Len(row_cells) = 1
  /\ Len(row_ops) = 2
  /\ row_ops[2].scorevalue = 0 /\ row_ops[2].kind = "None"

\* What field k yields on its own.
AnswerOf(k) ==
  IF IsBlank(Cell(k)) THEN DefaultAnswer ELSE TryBlock(question_meta[k], Cell(k).s)

\* C20: every turn of the loop moves to the next field and appends one record,
\* leaving the earlier ones as they were; a field whose scoring raises keeps
\* the default answer and every field yields what it yields on its own.
C20_FieldErrorIsIsolated ==
  [][/\ field_index' = field_index + 1
     /\ Len(row_ops') = field_index
     /\ SubSeq(row_ops', 1, Len(row_ops)) = row_ops
     /\ \A k \in 1..Len(row_ops') :
          /\ (~IsBlank(Cell(k)) /\ AnswerOf(k).raised)
               => (row_ops'[k].scorevalue = 0 /\ row_ops'[k].kind = "None")
          /\ row_ops'[k].field = k
          /\ row_ops'[k].scorevalue = AnswerOf(k).scorevalue
          /\ row_ops'[k].val = AnswerOf(k).val]_vars

\* C20 witness: the first field raised and the second was still scored.
C20_Witness ==
  /\ Len(row_ops) = 2
  /\ ~IsBlank(Cell(1)) /\ TryBlock(question_meta[1], Cell(1).s).raised
  /\ row_ops[2].scorevalue > 0


\* ---------------------------------------------------------------------
\* C21  For every input file, the delimiter chosen by dialect detection (the one
\* the header is read with, the rows are counted with, the chunks are written
\* with and the workers are given) is the comma or the pipe, whatever the
\* structural sniffing returns.
C21_DelimiterIsCommaOrPipe ==
  \A p \in Procs : delimiter[p] # "none" => delimiter[p] \in {Comma, Pipe}

\* ---------------------------------------------------------------------
\* C28  When the structural sniffing fails, the delimiter is chosen by counting
\* in the sample: the pipe if the sample holds more pipes than commas, the
\* comma otherwise.  The sample with 5 commas and 1 pipe selects the comma,
\* and its header a,b,c then parses to 3 columns.
C28_FallbackCountsCommasAndPipes ==
  \A p \in Procs :
    (delimiter[p] # "none" /\ file.sniff = "Error") =>
      /\ count(file.sample, Pipe) > count(file.sample, Comma) => delimiter[p] = Pipe
      /\ count(file.sample, Pipe) <= count(file.sample, Comma) => delimiter[p] = Comma
      /\ file.sample = ScenarioA =>
           /\ count(file.sample, Comma) = 5 /\ count(file.sample, Pipe) = 1
           /\ delimiter[p] = Comma
           /\ headers[p] = << <<"a">>, <<"b">>, <<"c">> >>

C28_Witness ==
  \E p \in Procs :
    /\ pc[p] = "workers"
    /\ file.sniff = "Error"
    /\ file.sample = ScenarioA
    /\ delimiter[p] = Comma
    /\ Len(headers[p]) = 3

\* ---------------------------------------------------------------------
\* C29  If the header row still parses to zero columns after the delimiter
\* detection and the override (empty file or blank header line), the run aborts
\* with a format error: stream_local_csv is left with no chunk created, no row
\* processed and the record Failed.
C29_EmptyHeaderAborts ==
  [][\A p \in Procs :
       (pc[p] = "stream" /\ pc'[p] # "stream" /\ Headers(file) = <<>>) =>
         /\ status' = "Failed"
         /\ ~chunk_dir'[p].exists
         /\ workers'[p] = <<>>
         /\ docs' = docs]_vars

\* ---------------------------------------------------------------------
\* C30  When a Row Worker hits a read or bulk-write error, its temporary chunk
\* file is removed and the error is raised to the caller; after
\* stream_local_csv has propagated an error, raised at any point (also before
\* the chunk directory is created), no chunk directory or chunk file of the
\* run remains and the error that propagates is the one that was raised.
C30_ErrorCleansUpAndPropagates ==
  [][\A p \in Procs :
       /\ \A w \in DOMAIN workers[p] \cap DOMAIN workers'[p] :
            (workers[p][w].st = "run" /\ workers'[p][w].st = "err") =>
              w \notin chunk_dir'[p].files
       /\ (stream_error'[p] # stream_error[p] /\ stream_error'[p].raised # "none") =>
            /\ chunk_dir'[p] = NoDir
            /\ stream_error'[p].propagated = stream_error'[p].raised]_vars

\* ---------------------------------------------------------------------
\* The chunk handed to worker i of caller p, and the rows of chunks i..n in
\* index order.
ChunkOf(p, i) == workers[p][i].args

RECURSIVE RowsFrom(_, _)
RowsFrom(p, i) ==
  IF i > Len(workers[p]) THEN <<>> ELSE ChunkOf(p, i).rows \o RowsFrom(p, i + 1)

RECURSIVE RowsBefore(_, _)
RowsBefore(p, i) == IF i <= 1 THEN 0 ELSE Len(ChunkOf(p, i - 1).rows) + RowsBefore(p, i - 1)

\* C22  The Chunk Splitter partitions the remaining rows: with
\* remaining = T - skip > 0 and W workers, chunks 0..W-2 hold floor(remaining/W)
\* rows each and the last chunk the rest, the sizes sum to remaining, and the
\* chunks read in index order are the data rows skip..T-1 in file order, each
\* row in exactly one chunk.
C22_ChunksPartitionRemainingRows ==
  \A p \in Procs :
    pc[p] = "workers" =>
      LET W == Len(workers[p])
          remaining == total_data_rows - skip_rows[p]
      IN  /\ remaining > 0
          /\ \A i \in 1..(W - 1) : Len(ChunkOf(p, i).rows) = remaining \div W
          /\ Len(ChunkOf(p, W).rows) = remaining - (W - 1) * (remaining \div W)
          /\ RowsBefore(p, W + 1) = remaining
          /\ RowsFrom(p, 1) = [k \in 1..remaining |-> skip_rows[p] + k]
          /\ \A i \in 1..W : ChunkOf(p, i).rows_to_process = Len(ChunkOf(p, i).rows)

C22_Witness ==
  \E p \in Procs :
    /\ pc[p] = "workers"
    /\ Len(workers[p]) >= 3
    /\ skip_rows[p] > 0
    /\ (total_data_rows - skip_rows[p]) % Len(workers[p]) # 0

\* ---------------------------------------------------------------------
\* The order range of chunk i: [order_start, order_start + rows).
OrderRange(p, i) ==
  ChunkOf(p, i).order_start .. (ChunkOf(p, i).order_start + ChunkOf(p, i).rows_to_process - 1)

\* C23  Each chunk's orderStart is the run's order base plus the number of rows
\* in all earlier chunks, so the order ranges of the chunks are pairwise
\* disjoint, have no gap between consecutive chunks and together cover exactly
\* [base, base + remaining).
C23_OrderStartsAreCumulative ==
  \A p \in Procs :
    pc[p] = "workers" =>
      LET W == Len(workers[p])
          remaining == total_data_rows - skip_rows[p]
      IN  /\ \A i \in 1..W : ChunkOf(p, i).order_start = start_order[p] + RowsBefore(p, i)
          /\ \A i, j \in 1..W : i # j => OrderRange(p, i) \cap OrderRange(p, j) = {}
          /\ \A i \in 1..(W - 1) :
               ChunkOf(p, i + 1).order_start
                 = ChunkOf(p, i).order_start + ChunkOf(p, i).rows_to_process
          /\ UNION {OrderRange(p, i) : i \in 1..W}
               = start_order[p] .. (start_order[p] + remaining - 1)

C23_Witness ==
  \E p \in Procs :
    /\ pc[p] = "workers"
    /\ Len(workers[p]) >= 3
    /\ start_order[p] > 0
    /\ ChunkOf(p, 3).order_start = start_order[p] + 2 * Len(ChunkOf(p, 1).rows)
    /\ Len(ChunkOf(p, 3).rows) > Len(ChunkOf(p, 1).rows)

\* ---------------------------------------------------------------------
\* C25  The worker count is W = min(availableParallelism, cap) with cap 8 (the
\* available parallelism being half the processors), reduced when remaining is
\* small so that no worker receives a trivial slice: whenever remaining >= 10
\* every chunk handed to a worker holds at least 10 rows, and W never exceeds 8.
C25_NoTrivialSliceAndCap ==
  \A p \in Procs :
    pc[p] = "workers" =>
      LET W == Len(workers[p])
          remaining == total_data_rows - skip_rows[p]
      IN  /\ W >= 1 /\ W <= 8
          /\ remaining >= 10 => \A i \in 1..W : Len(ChunkOf(p, i).rows) >= 10
          /\ \E cpu \in 1..limit.cpus :
               \/ W = Min(cpu \div 2, 8) /\ remaining >= W * 10
               \/ W < Min(cpu \div 2, 8) /\ W = Max(1, remaining \div 10)

C25_Witness ==
  \E p \in Procs :
    /\ pc[p] = "workers"
    /\ Len(workers[p]) = 8
    /\ total_data_rows - skip_rows[p] >= 90
    /\ \A i \in 1..8 : Len(ChunkOf(p, i).rows) >= 10

\* ---------------------------------------------------------------------
\* The operations a worker still has to write.
PendingOps(wk) == UNION {SeqToSet(wk.flushes[i]) : i \in 1..Len(wk.flushes)}

\* localRowIndex: the zero-based position of row r among all rows of the chunk.
LocalRowIndex(chunk, r) == (CHOOSE k \in 1..Len(chunk.rows) : chunk.rows[k] = r) - 1

\* C24  In a Row Worker every processed (non-empty) row gets
\* order = chunkOrderStart + localRowIndex, where localRowIndex is the row's
\* zero-based position among all rows of the chunk, empty rows included.
C24_OrderIsStartPlusLocalIndex ==
  \A p \in Procs :
    pc[p] = "workers" =>
      \A w \in DOMAIN workers[p] :
        \A op \in PendingOps(workers[p][w]) :
          op.order = ChunkOf(p, w).order_start + LocalRowIndex(ChunkOf(p, w), op.row)

\* ---------------------------------------------------------------------
\* A run whose stream_local_csv returned at "No remaining rows to process".
NoOpRun(p) == pc[p] \in {"hook", "complete"} /\ workers[p] = <<>>

\* stream_local_csv is left by a caller whose cursor is at or past the end of the file.
LeavesStreamAtEnd(p) ==
  /\ pc[p] = "stream"
  /\ pc'[p] # "stream"
  /\ file.header
  /\ skip_rows[p] >= total_data_rows

RowsRead(chunk) ==
  SeqToSet(SubSeq(chunk.rows, 1, Min(chunk.rows_to_process, Len(chunk.rows))))

\* C27  A Row Worker reads at most its chunk's declared row count; rows whose
\* fields are all empty after trimming produce no records; and when the worker
\* returns normally its buffer is empty, the records of every non-empty row it
\* read have been bulk-written, and its return value is the number of
\* non-empty rows.
C27_WorkerWritesEveryNonEmptyRow ==
  \A p \in Procs :
    pc[p] = "workers" =>
      \A w \in DOMAIN workers[p] :
        LET wk == workers[p][w]
            chunk == ChunkOf(p, w)
        IN  /\ Cardinality(RowsRead(chunk)) <= chunk.rows_to_process
            /\ \A op \in PendingOps(wk) : op.row \in RowsRead(chunk) /\ IsNonEmpty(op.row)
            /\ wk.st = "ok" =>
                 /\ wk.flushes = <<>>
                 /\ wk.processed = Cardinality({r \in RowsRead(chunk) : IsNonEmpty(r)})
                 /\ \A r \in RowsRead(chunk) :
                      /\ IsNonEmpty(r) =>
                           \A q \in 1..Q :
                             \E d \in docs :
                               d.row = r /\ d.q = q /\ d.order \in OrderRange(p, w)
                      /\ ~IsNonEmpty(r) =>
                           \A d \in docs : d.order \in OrderRange(p, w) => d.row # r

C27_Witness ==
  \E p \in Procs :
    \E w \in DOMAIN workers[p] :
      /\ pc[p] = "workers"
      /\ Q > 0
      /\ workers[p][w].st = "ok"
      /\ workers[p][w].processed = 2
      /\ \E r \in RowsRead(ChunkOf(p, w)) : ~IsNonEmpty(r)

\* ---------------------------------------------------------------------
\* C37  Whenever remaining > 0 the computed worker count W is at least 1 for
\* every number of processors of the machine, a single one included, so that
\* remaining // W is defined and at least one chunk is created.
C37_WorkerCountIsPositive ==
  \A p \in Procs :
    pc[p] = "stream" /\ file.header /\ remaining_rows(skip_rows[p]) > 0 =>
      \A cpu \in 1..limit.cpus :
        /\ num_workers(remaining_rows(skip_rows[p]), cpu) >= 1
        /\ Len(Chunks(skip_rows[p], start_order[p],
                      num_workers(remaining_rows(skip_rows[p]), cpu))) >= 1

\* ---------------------------------------------------------------------
\* Every data row below the cursor k is in the file, non-empty and has its Q
\* documents.
RowsBelowCommitted(k) ==
  \A r \in 1..k : r <= total_data_rows /\ file.rows[r] /\ RowCommitted(r)

\* C38  The skip adjustment loop ends, never raises the cursor, and leaves the
\* stored resume cursor unchanged whenever every row below the cursor is fully
\* committed (Q documents each); it lowers the cursor only past trailing rows
\* whose documents are incomplete.
C38_AdjustKeepsCommittedCursor ==
  [][\A p \in Procs :
       pc[p] = "adjust" /\ pc'[p] = "stream" =>
         /\ skip_rows'[p] <= skip_rows[p]
         /\ lastRecord' <= lastRecord
         /\ RowsBelowCommitted(skip_rows[p]) =>
              lastRecord' = lastRecord /\ skip_rows'[p] = skip_rows[p]]_vars

\* ---------------------------------------------------------------------
\* A free-text rule the loop can evaluate: a condition and a numeric score.
WellFormedTextRule(sc) ==
  /\ {"condition", "score"} \subseteq DOMAIN sc
  /\ float(sc.score).ok

\* The rule is an is-not-blank rule, or a keyword rule whose keyword is v.
TextRuleCounts(sc, v) ==
  \/ sc.condition = "is not blank"
  \/ sc.condition = "is customized keyword" /\ "count" \in DOMAIN sc /\ sc.count = v

\* The sum of the scores of the rules that count for v.
TextMatchingSum(rules, v) ==
  SumSeq([k \in 1..Len(rules) |->
            IF TextRuleCounts(rules[k], v) THEN float(rules[k].score).v ELSE 0])

TextField(k) == question_meta[k].type = "Text answer"

\* C39  For a free-text field an is-blank rule never adds to the score: the
\* score of a non-empty value is the sum of the scores of the is-not-blank
\* rules and of the keyword rules whose keyword equals the value exactly, and
\* the stored answer is the value.
C39_TextScoreLeavesOutBlankRule ==
  \A k \in DoneFields :
    LET q == question_meta[k]
        op == row_ops[k]
    IN  (/\ TextField(k)
         /\ ~IsBlank(Cell(k))
         /\ \A j \in 1..Len(q.scoreOptions) : WellFormedTextRule(q.scoreOptions[j]))
        => /\ op.scorevalue = TextMatchingSum(q.scoreOptions, Cell(k).s)
           /\ op.kind = "str" /\ op.val = <<Cell(k).s>>

\* C39 witness: an is-blank rule (2) and a keyword rule (4) for the value "Yes": 4.
C39_Witness ==
  \E k \in DoneFields :
    /\ TextField(k)
    /\ Cell(k).s = Yes
    /\ question_meta[k].scoreOptions =
         <<[condition |-> "is blank", score |-> <<"2">>],
           [condition |-> "is customized keyword", count |-> Yes, score |-> <<"4">>]>>
    /\ row_ops[k].scorevalue = 4

\* ---------------------------------------------------------------------
\* C36  After a successful run with Q field definitions, every committed order
\* of the file has exactly Q stored documents, one per field definition, for
\* every list of field definitions, lists in which two fields have the same
\* title included.
C36_EveryOrderHasQDocuments ==
  \A p \in Procs :
    FromFresh(p) /\ Q > 0 =>
      \A o \in Orders(docs) :
        /\ count_documents(docs, o) = Q
        /\ {d.q : d \in {e \in docs : e.order = o}} = 1..Q

\* ---------------------------------------------------------------------
\* Two field definitions have the same (type, normalized title).
SamePair(q1, q2) ==
  q1.type = q2.type /\ normalize_header(q1.title) = normalize_header(q2.title)

\* C31  commonId is a function of the pair (type, normalizedTitle): fields with
\* the same pair get the same commonId within one run, and a repeated run over
\* the same field definitions reuses the id assigned earlier, so that the
\* stored documents of one pair all carry one commonId.
C31_CommonIdIsFunctionOfPair ==
  /\ \A i, j \in 1..Len(question_meta) :
       SamePair(question_meta[i], question_meta[j]) =>
         question_meta[i].commonId = question_meta[j].commonId
  /\ \A d \in docs : \A i \in 1..Len(question_meta) :
       SamePair(question_list[d.q], question_meta[i]) => d.commonId = question_meta[i].commonId
  /\ \A d1, d2 \in docs :
       SamePair(question_list[d1.q], question_list[d2.q]) => d1.commonId = d2.commonId

\* ---------------------------------------------------------------------
\* The operations of the bulk write that write d's field of d's row under d's key again.
WrittenAgain(d) ==
  {o \in SeqToSet(row_ops) : UpsertKey(o) = UpsertKey(d) /\ o.q = d.q /\ o.row = d.row}

\* No two field definitions have the same title.
DistinctTitles ==
  \A i, j \in 1..Len(question_list) :
    question_list[i].title = question_list[j].title => i = j

\* C32  Writes are idempotent per key: executing a row's write again with the
\* same parent identifiers and order creates no additional record and does not
\* change the record stored by the first write (field titles that differ).
C32_RewriteLeavesRecordAlone ==
  [][DistinctTitles /\ row_ops # <<>> /\ row_ops' = <<>> =>
       /\ \A d \in docs : WrittenAgain(d) # {} => d \in docs'
       /\ (\A o \in SeqToSet(row_ops) : \E d \in docs : UpsertKey(d) = UpsertKey(o)) =>
            Cardinality(docs') = Cardinality(docs)]_vars

\* ------------------------------------------------------------------- C33
\* The file was not taken up: no inspection, no download, no upload record.
NotTakenUp ==
  /\ inspections_col = 0
  /\ file_uploads_col = <<>>
  /\ \A p \in Procs : poll[p].pc \in {"idle", "listed"}

\* C33: with START_DATE set, a file whose name carries a date before START_DATE,
\* or no date that can be extracted, is skipped by the polling orchestrator:
\* it is not downloaded and no inspection or upload record is created for it.
C33_UndatedAndEarlierFilesAreSkipped ==
  LET start_date == parse_start_date(START_DATE_STR)
      file_date == extract_date_from_filename(files.filename)
  IN (start_date.ok /\ (~file_date.ok \/ file_date.v < start_date.v)) => NotTakenUp

\* ------------------------------------------------------------------- C34
\* The checklistresult documents of an inspection.
ResultsOf(ref) == {i \in DOMAIN checklistresults_col : checklistresults_col[i].inspectionRef = ref}

\* C34: create_checklistresult_if_not_exists keeps at most one checklistresult
\* document per inspectionRef, whatever the interleaving of the calls made for
\* the same inspectionRef.
C34_OneResultPerInspection ==
  \A ref \in 1..PollMaxInspections : Cardinality(ResultsOf(ref)) <= 1

\* ------------------------------------------------------------------- C35
\* C35: the process_csv_file call the orchestrator makes right after it created
\* a record claims and processes that record, not an older record of the same
\* filePath: the record in the run is the caller's doc_id.
C35_RunTakesTheNewRecord ==
  \A p \in Procs : poll[p].pc = "csv_run" => poll[p].file_doc = poll[p].doc_id

====
